---- MODULE Spec2Model ----
(***************************************************************************)
(* Tile resolution, cropping and caching engine of Deep-Zoomer:            *)
(* backend/services/tile_service.py, backend/services/cache_service.py,    *)
(* backend/services/ml_service.py and the routes of                        *)
(* backend/api/routes/tiles.py.                                            *)
(*                                                                         *)
(* A request moves from one await of the code to the next;  *)
(* what the network, the shared cache tier and the models answer at an     *)
(* await is chosen by the environment.                                     *)
(***************************************************************************)
EXTENDS Integers, Sequences, FiniteSets, TLC

(***************************************************************************)
(* Optional values: <<>> is Python's None, <<v>> a present value.          *)
(***************************************************************************)
None == <<>>

Some(v) == <<v>>

Min(a, b) == IF a <= b THEN a ELSE b

Max(a, b) == IF a >= b THEN a ELSE b

RECURSIVE Pow2(_)
Pow2(n) == IF n <= 0 THEN 1 ELSE 2 * Pow2(n - 1)

(* int(): truncation toward zero of the quotient n / d, d > 0 *)
Trunc(n, d) == IF n >= 0 THEN n \div d ELSE -((-n) \div d)

(***************************************************************************)
(* References.  A URL string is kept as the fields the code looks at: the  *)
(* host ("nasa.gov" in url), the parts between slashes (url.split('/')),   *)
(* the variant marker of the file name ("~thumb", "~mobile", "~orig") and  *)
(* the file extension.                                                     *)
(***************************************************************************)
Url(host, dirs, file, marker, ext) ==
    [host |-> host, dirs |-> dirs, file |-> file, marker |-> marker, ext |-> ext]

NoUrl == Url("", <<>>, "", "", "")

ThumbUrl == Url("images-assets.nasa.gov", <<"image", "PIA1">>, "PIA1~thumb.jpg", "~thumb", ".jpg")

OrigUrl == Url("images-assets.nasa.gov", <<"image", "PIA1">>, "PIA1~orig.jpg", "~orig", ".jpg")

OrigTifUrl == Url("images-assets.nasa.gov", <<"image", "PIA1">>, "PIA1~orig.tif", "~orig", ".tif")

PlainUrl == Url("example.org", <<"pictures">>, "mars.jpg", "", ".jpg")

NasaHosts == {"images-assets.nasa.gov"}

(* tile_service.py:262 *)
IsThumbPattern(u) == u.host \in NasaHosts /\ u.marker \in {"~thumb", "~mobile"}

Parts(u) == <<"https:", "", u.host>> \o u.dirs \o <<u.file>>

(* tile_service.py:266-271: the part that follows the first 'image' part *)
NasaId(u) ==
    LET parts == Parts(u)
        idx == {i \in 1..Len(parts) : parts[i] = "image" /\ i + 1 <= Len(parts)}
    IN IF idx = {} THEN None
       ELSE Some(parts[(CHOOSE i \in idx : \A j \in idx : i <= j) + 1])

(* tile_service.py:280: first link with "~orig" and a raster extension *)
PickOrig(links) ==
    LET idx == {i \in 1..Len(links) :
                   links[i].marker = "~orig" /\ links[i].ext \in {".jpg", ".jpeg", ".png"}}
    IN IF idx = {} THEN None
       ELSE Some(links[CHOOSE i \in idx : \A j \in idx : i <= j])

(***************************************************************************)
(* The images the origin serves, by reference: the original is larger than *)
(* its thumbnail.                                                          *)
(***************************************************************************)
Image(name, w, h, mode) == [name |-> name, w |-> w, h |-> h, mode |-> mode]

(* references outside the asset host, one per image size *)
SizedUrl(w, h) == Url("example.org", <<"sized", ToString(w), ToString(h)>>, "image.jpg", "", ".jpg")

GeoSizes ==
    {<<1, 1>>, <<1, 2>>, <<2, 1>>, <<3, 5>>, <<5, 3>>, <<256, 257>>, <<257, 256>>,
     <<1024, 700>>, <<700, 1024>>, <<1000, 1000>>, <<10000, 6000>>, <<6000, 10000>>}

ImageOf(u) ==
    CASE u = OrigUrl  -> Image(u.file, 1000, 600, "RGB")
      [] u = ThumbUrl -> Image(u.file, 300, 200, "RGB")
      [] \E s \in GeoSizes : u = SizedUrl(s[1], s[2]) ->
            LET s == CHOOSE r \in GeoSizes : u = SizedUrl(r[1], r[2])
            IN Image(u.file, s[1], s[2], "RGB")
      [] OTHER        -> Image(u.file, 1000, 1000, "RGB")

(***************************************************************************)
(* Pyramid geometry, tile_service.py:185-229.                              *)
(***************************************************************************)
RECURSIVE CeilLog2From(_, _)
CeilLog2From(n, l) == IF Pow2(l) >= n THEN l ELSE CeilLog2From(n, l + 1)

(* the level of the width alone *)
MaxLevelOfWidth(width, height) == CeilLog2From(width, 0)

(* math.ceil(math.log2(max(width, height))): log2 is exact on powers of two
   and, for image sides (below 2^31), never rounds across an integer *)
MaxLevel(width, height) == CeilLog2From(Max(width, height), 0)

(* get_iiif_info, tile_service.py:126-159: the discovery document of an
   image, None for the empty dict returned when there is no image *)
get_iiif_info(image) ==
    IF image = None THEN None
    ELSE LET max_level == MaxLevel(image[1].w, image[1].h)
         IN Some([width |-> image[1].w, height |-> image[1].h, maxLevel |-> max_level,
                  tile_width |-> 256,
                  scaleFactors |-> [i \in 1..(max_level + 1) |-> Pow2(i - 1)]])

(***************************************************************************)
(* scale = 2 ** (max_level - z) is an int for z <= max_level and the float *)
(* 1 / 2^(z - max_level) above it.  Every coordinate is then a multiple of *)
(* 1 / den, den = 2^(z - max_level), and is kept as its numerator over     *)
(* den; for z <= max_level den is 1.                                       *)
(***************************************************************************)
(* the plan without the clamp of lines 212-213 *)
CropPlanUnclamped(z, x, y, tile_size, width, height) ==
    LET max_level == MaxLevel(width, height)
        num    == IF z <= max_level THEN Pow2(max_level - z) ELSE 1
        den    == IF z <= max_level THEN 1 ELSE Pow2(z - max_level)
        frts   == tile_size * num
        left   == x * frts
        top    == y * frts
        right  == left + frts
        bottom == top + frts
        oob    == left >= width * den \/ top >= height * den
                  \/ right <= left \/ bottom <= top
        box    == <<Trunc(left, den), Trunc(top, den), Trunc(right, den), Trunc(bottom, den)>>
    IN [max_level |-> max_level,
        oob       |-> oob,
        box       |-> box,
        empty     |-> box[3] <= box[1] \/ box[4] <= box[2],
        target_w  |-> Max(1, Trunc(right - left, num)),
        target_h  |-> Max(1, Trunc(bottom - top, num))]

(* tile_service.py:205-229 *)
CropPlan(z, x, y, tile_size, width, height) ==
    LET max_level == MaxLevel(width, height)
        num    == IF z <= max_level THEN Pow2(max_level - z) ELSE 1
        den    == IF z <= max_level THEN 1 ELSE Pow2(z - max_level)
        frts   == tile_size * num
        left   == x * frts
        top    == y * frts
        right  == Min(left + frts, width * den)
        bottom == Min(top + frts, height * den)
        oob    == left >= width * den \/ top >= height * den
                  \/ right <= left \/ bottom <= top
        box    == <<Trunc(left, den), Trunc(top, den), Trunc(right, den), Trunc(bottom, den)>>
    IN [max_level |-> max_level,
        oob       |-> oob,
        box       |-> box,
        empty     |-> box[3] <= box[1] \/ box[4] <= box[2],
        target_w  |-> Max(1, Trunc(right - left, num)),
        target_h  |-> Max(1, Trunc(bottom - top, num))]

(***************************************************************************)
(* Cache keys are strings, built as the f-strings of the code build them:  *)
(* ToString is Python's str() of an int, BoolStr that of a bool, and a     *)
(* confidence threshold is carried as the text str() gives for the float.  *)
(***************************************************************************)
BoolStr(b) == IF b THEN "True" ELSE "False"

(* hashlib.md5(image_url.encode()).hexdigest(): a digest per reference,
   taken to be different for the references considered *)
Md5(u) ==
    CASE u = ThumbUrl   -> "md5-7a1c"
      [] u = OrigUrl    -> "md5-03be"
      [] u = OrigTifUrl -> "md5-c4d9"
      [] u = PlainUrl   -> "md5-e610"
      [] Len(u.dirs) = 3 -> "md5-" \o u.dirs[2] \o "f" \o u.dirs[3]
      [] OTHER          -> "md5-0000"

(* tile_service.py:190-191 *)
DynKey(image_url, z, x, y, enhance, labels, confidence_threshold, quality) ==
    "dyn:" \o Md5(image_url) \o ":" \o ToString(z) \o ":" \o ToString(x) \o ":" \o ToString(y)
    \o ":e" \o BoolStr(enhance) \o ":l" \o BoolStr(labels)
    \o ":c" \o confidence_threshold \o ":q" \o ToString(quality)

(* the key without the delimiter that follows the identifier *)
LocalKeyNoDelimiter(image_id, z, x, y, enhance, labels, confidence_threshold) ==
    image_id \o ToString(z) \o ":" \o ToString(x) \o ":" \o ToString(y)
    \o ":e" \o BoolStr(enhance) \o ":l" \o BoolStr(labels)
    \o ":c" \o confidence_threshold

(* tile_service.py:54 *)
LocalKey(image_id, z, x, y, enhance, labels, confidence_threshold) ==
    image_id \o ":" \o ToString(z) \o ":" \o ToString(x) \o ":" \o ToString(y)
    \o ":e" \o BoolStr(enhance) \o ":l" \o BoolStr(labels)
    \o ":c" \o confidence_threshold

(***************************************************************************)
(* A Python dict keeps insertion order: a sequence of entries, one per     *)
(* key.  Assigning to a key that is present keeps its position.            *)
(***************************************************************************)
DictHas(d, k) == \E i \in 1..Len(d) : d[i].k = k

DictGet(d, k) ==
    IF DictHas(d, k) THEN Some(d[CHOOSE i \in 1..Len(d) : d[i].k = k].v) ELSE None

(* an assignment that moves a key that is present to the end, as a
   least-recently-used order would *)
DictSetRefresh(d, k, v) ==
    Append(SelectSeq(d, LAMBDA e : e.k # k), [k |-> k, v |-> v])

DictSet(d, k, v) ==
    IF DictHas(d, k)
    THEN [i \in 1..Len(d) |-> IF d[i].k = k THEN [k |-> k, v |-> v] ELSE d[i]]
    ELSE Append(d, [k |-> k, v |-> v])

DictKeys(d) == {d[i].k : i \in 1..Len(d)}

(***************************************************************************)
(* Capacities.  The local tier holds 200 entries in the code               *)
(* (cache_service.py:49); the model runs it with a small capacity so that  *)
(* the eviction branch is taken.                                           *)
(***************************************************************************)
LocalCapacity == 2

PoolLimit == 3

(* the interpreter's recursion limit, in calls of _get_full_image *)
RecursionLimit == 3

(* an eviction that drops the newest entry instead of the oldest *)
LocalPutDropNewest(memory, cache_key, tile_data) ==
    LET d == DictSet(memory, cache_key, tile_data)
    IN IF Len(d) > LocalCapacity THEN SubSeq(d, 1, Len(d) - 1) ELSE d

(* cache_service.py:48-50 *)
LocalPut(memory, cache_key, tile_data) ==
    LET d == DictSet(memory, cache_key, tile_data)
    IN IF Len(d) > LocalCapacity THEN Tail(d) ELSE d

(* an insertion without the size check of line 302 *)
PoolPutUnchecked(pool, actual_url, image) ==
    DictSet(pool, actual_url, image)

(* tile_service.py:302-304 *)
PoolPut(pool, actual_url, image) ==
    LET d == IF Len(pool) > PoolLimit THEN Tail(pool) ELSE pool
    IN DictSet(d, actual_url, image)

(***************************************************************************)
(* Enhancement gateway, ml_service.py:108-175.  An image carries the       *)
(* operations applied to it.  fail is the set of operations that fail in   *)
(* this request; each catches its own exception and returns its argument.  *)
(* The result is optional: None stands for an exception that leaves the    *)
(* call.                                                                   *)
(***************************************************************************)
TileImage(src, box, w, h) ==
    [name |-> src.name, box |-> box, w |-> w, h |-> h, mode |-> src.mode, ops |-> <<>>]

(* super_resolve without its try/except: the failure leaves the call *)
super_resolve_unguarded(image, loaded, sr, fail) ==
    IF "sr" \in fail THEN None
    ELSE Some([image EXCEPT !.w = 2 * @, !.h = 2 * @,
                            !.ops = Append(@, IF ~loaded \/ sr # "realesrgan"
                                              THEN "lanczos2x" ELSE "realesrgan")])

(* ml_service.py:108-131 *)
super_resolve(image, loaded, sr, fail) ==
    IF "sr" \in fail THEN Some(image)
    ELSE Some([image EXCEPT !.w = 2 * @, !.h = 2 * @,
                            !.ops = Append(@, IF ~loaded \/ sr # "realesrgan"
                                              THEN "lanczos2x" ELSE "realesrgan")])

(* ml_service.py:133-148 *)
denoise(image, fail) ==
    IF "denoise" \in fail THEN Some(image)
    ELSE Some([image EXCEPT !.ops = Append(@, "bilateral")])

(* ml_service.py:150-175 *)
add_labels(image, loaded, fail) ==
    IF "labels" \in fail \/ ~loaded THEN Some(image)
    ELSE Some([image EXCEPT !.ops = Append(@, "labels")])

(* tile_service.py:237-244 and 95-103; None when a call raised *)
Enhance(image, enhance, labels, loaded, sr, fail) ==
    LET a == IF ~enhance THEN Some(image) ELSE super_resolve(image, loaded, sr, fail)
        b == IF ~enhance \/ a = None THEN a ELSE denoise(a[1], fail)
    IN IF ~labels \/ b = None THEN b ELSE add_labels(b[1], loaded, fail)

Encoded(image, format, quality) == [img |-> image, format |-> format, quality |-> quality]

(***************************************************************************)
(* Tiles on disk for the local route, tile_service.py:67-84: the first of  *)
(* the three candidate paths that exists.                                  *)
(***************************************************************************)
MarsId == "mars"

DiskFiles ==
    {[image_id |-> MarsId, z |-> 0, x |-> 0, y |-> 0, path |-> 2, mode |-> "RGBA"],
     [image_id |-> "a", z |-> 12, x |-> 0, y |-> 0, path |-> 1, mode |-> "RGB"],
     [image_id |-> "a1", z |-> 2, x |-> 0, y |-> 0, path |-> 1, mode |-> "RGB"],
     [image_id |-> "a:1", z |-> 2, x |-> 0, y |-> 0, path |-> 3, mode |-> "RGB"],
     [image_id |-> "a[1]", z |-> 2, x |-> 0, y |-> 0, path |-> 1, mode |-> "RGB"]}

DiskTile(image_id, z, x, y) ==
    LET found == {f \in DiskFiles : f.image_id = image_id /\ f.z = z /\ f.x = x /\ f.y = y}
    IN IF found = {} THEN None
       ELSE LET f == CHOOSE g \in found : \A h \in found : g.path <= h.path
            IN Some(Image("disk", 256, 256, f.mode))

(* get_dynamic_tile's defaults, tile_service.py:167 and 171 *)
DefaultTileSize == 256

DefaultQuality == 90

(* tile_service.py:109 *)
LocalQuality == 85

(***************************************************************************)
(* State.                                                                  *)
(*   connected, memory_cache   CacheService of the tile pipeline           *)
(*   redis                     contents of the shared tier                 *)
(*   source_image_cache        TileService's pool of decoded images        *)
(*   models_loaded, models     MLService of the tile pipeline              *)
(*   req                       the requests: position and locals           *)
(*   main                      main.py: whether startup_event has run, and *)
(*                             the connected field of the CacheService     *)
(*                             that main.py constructs (line 51)           *)
(***************************************************************************)
VARIABLES connected, memory_cache, redis, source_image_cache, models_loaded, models, req,
          main

vars == <<connected, memory_cache, redis, source_image_cache, models_loaded, models, req,
          main>>

Handlers == {"h1"}

(***************************************************************************)
(* A request: its arguments, the locals of the handler, and a record of    *)
(* what it did: the network calls of the resolver with their answers       *)
(* (net), whether the pool or the cache answered (poolHit, hit), the       *)
(* failures it met (cacheErr, storeErr, mlFail, procErr), and what the two *)
(* tiers held for its key when it arrived (local0, shared0).  An           *)
(* invalidation has the locals pattern and keys.  A precompute task has    *)
(* run: its arguments, the number i of levels (or simulation steps)        *)
(* started, the status whose write it awaits (pending), and a record of    *)
(* the statuses it wrote and of what its tile calls returned.  run stays   *)
(* with the request while the task is inside get_dynamic_tile; started is  *)
(* the identifiers of the tasks this handler has run so far.               *)
(***************************************************************************)
NoRun ==
    [active |-> FALSE, image_id |-> "", url |-> None, levels |-> <<>>, i |-> 0,
     pending |-> None, writes |-> <<>>, tiles |-> <<>>, started |-> {}]

IdleReq ==
    [pc |-> "idle", op |-> "none",
     url |-> NoUrl, image_id |-> "", z |-> 0, x |-> 0, y |-> 0,
     enhance |-> FALSE, labels |-> FALSE, conf |-> "0.5",
     req_quality |-> 0, quality |-> 0,
     actual |-> NoUrl, depth |-> 0, net |-> <<>>, image |-> None,
     key |-> "", fresh |-> None, result |-> None, status |-> 0,
     hit |-> FALSE, poolHit |-> FALSE, local0 |-> None, shared0 |-> None,
     cacheErr |-> FALSE, storeErr |-> FALSE, mlFail |-> {}, procErr |-> FALSE,
     pattern |-> "", keys |-> {}, run |-> NoRun]

RedisGet(r, k) == IF k \in DOMAIN r THEN Some(r[k]) ELSE None

(* main.py:51 with cache_service.py:12-16: constructed, not yet started *)
MainInit == [started |-> FALSE, connected |-> FALSE]

Init ==
    /\ connected = FALSE
    /\ memory_cache = <<>>
    /\ redis = <<>>
    /\ source_image_cache = <<>>
    /\ models_loaded = FALSE
    /\ models = [sr |-> "unset"]
    /\ req = [t \in Handlers |-> IdleReq]
    /\ main = MainInit

(***************************************************************************)
(* Routes, api/routes/tiles.py.  get_tile re-raises its own HTTPException  *)
(* (lines 64-65); get_proxy_tile raises the 404 inside the try whose only  *)
(* handler is `except Exception`, which turns it into a 500 (118-120).     *)
(***************************************************************************)
LocalTileStatus(tile_data) == IF tile_data = None THEN 404 ELSE 200

ProxyTileStatus(tile_data) == IF tile_data = None THEN 500 ELSE 200

RouteStatus(op, tile_data) ==
    IF op = "proxy_tile" THEN ProxyTileStatus(tile_data) ELSE LocalTileStatus(tile_data)

(* api/routes/tiles.py:70-82: the 400 of an empty document is raised inside
   the try and leaves as a 500 *)
ProxyInfoStatus(info) == IF info = None THEN 500 ELSE 200

(* the service call returns tile_data and the route answers *)
Finish(tk, tile_data) ==
    [tk EXCEPT !.pc = "done", !.result = tile_data,
               !.status = RouteStatus(tk.op, tile_data)]

(***************************************************************************)
(* CacheService, cache_service.py.  rd, wr and ping are what the shared    *)
(* tier does with the call: "ok" or "raise".  `raised` says whether an     *)
(* exception leaves the method; both methods catch everything.             *)
(***************************************************************************)
(* cache_service.py:18-27 *)
initialize(ping) == ping = "ok"

(* get_tile without its try/except: a failing read leaves the call *)
get_tile_unguarded(memory, shared, conn, cache_key, rd) ==
    [value  |-> IF conn /\ rd = "ok" /\ RedisGet(shared, cache_key) # None
                THEN RedisGet(shared, cache_key)
                ELSE DictGet(memory, cache_key),
     raised |-> conn /\ rd = "raise"]

(* cache_service.py:29-42 *)
get_tile(memory, shared, conn, cache_key, rd) ==
    [value  |-> IF conn /\ rd = "ok" /\ RedisGet(shared, cache_key) # None
                THEN RedisGet(shared, cache_key)
                ELSE DictGet(memory, cache_key),
     raised |-> FALSE]

(* a write that keeps the value of a key that is present (SET NX) *)
setex_if_absent(shared, cache_key, tile_data, wr) ==
    IF wr = "ok" /\ cache_key \notin DOMAIN shared
    THEN (cache_key :> tile_data) @@ shared ELSE shared

(* redis_client.setex, cache_service.py:54 *)
setex(shared, cache_key, tile_data, wr) ==
    IF wr = "ok" THEN (cache_key :> tile_data) @@ shared ELSE shared

(* set_tile without its try/except: a failing write leaves the call *)
set_tile_unguarded(memory, shared, conn, cache_key, tile_data, wr) ==
    [memory |-> LocalPut(memory, cache_key, tile_data),
     shared |-> IF conn /\ wr = "ok" THEN (cache_key :> tile_data) @@ shared ELSE shared,
     raised |-> conn /\ wr = "raise"]

(* cache_service.py:44-57 *)
set_tile(memory, shared, conn, cache_key, tile_data, wr) ==
    [memory |-> LocalPut(memory, cache_key, tile_data),
     shared |-> IF conn THEN setex(shared, cache_key, tile_data, wr) ELSE shared,
     raised |-> FALSE]

(***************************************************************************)
(* An exception inside the service.  get_dynamic_tile is one try block     *)
(* (tile_service.py:177-256) that returns None.  get_tile reads the cache  *)
(* outside its try (lines 57-60): that exception reaches the route, which  *)
(* answers 500 (api/routes/tiles.py:66-68); later ones return None         *)
(* (tile_service.py:117-119).                                              *)
(***************************************************************************)
Raised(tk, inTry) ==
    IF tk.op = "proxy_tile" \/ inTry THEN Finish(tk, None)
    ELSE [tk EXCEPT !.pc = "done", !.result = None, !.status = 500]

(***************************************************************************)
(* _get_full_image, tile_service.py:258-321.  The recursive calls of lines *)
(* 309 and 316 return what the inner call returns, so a call chain is the  *)
(* request's depth.  Beyond the interpreter's limit the call raises        *)
(* RecursionError, which ends in `return None` (319-321, or 254-256).      *)
(***************************************************************************)
(* what the caller does with the image: get_dynamic_tile, lines 180-197,
   and get_iiif_info, lines 129-156 *)
GfiReturn(tk, image, conn) ==
    IF tk.op = "proxy_info"
    THEN [tk EXCEPT !.pc = "done", !.image = image, !.result = get_iiif_info(image),
                    !.status = ProxyInfoStatus(get_iiif_info(image))]
    ELSE IF image = None THEN Finish(tk, None)
    ELSE [tk EXCEPT !.image = image,
                    !.key = DynKey(tk.url, tk.z, tk.x, tk.y, tk.enhance, tk.labels,
                                   tk.conf, tk.quality),
                    !.pc = IF conn THEN "get" ELSE "init"]

(* lines 287-288, then the await of line 294 *)
GfiPoolLookup(tk, actual_url, pool, conn) ==
    IF DictHas(pool, actual_url)
    THEN GfiReturn([tk EXCEPT !.actual = actual_url, !.poolHit = TRUE],
                   DictGet(pool, actual_url), conn)
    ELSE [tk EXCEPT !.actual = actual_url, !.pc = "fetch"]

(* lines 261-275: entry of a call for tk.url *)
GfiEnter(tk, pool, conn) ==
    IF tk.depth > RecursionLimit THEN GfiReturn(tk, None, conn)
    ELSE IF IsThumbPattern(tk.url) /\ NasaId(tk.url) # None
    THEN [tk EXCEPT !.pc = "lookup"]
    ELSE GfiPoolLookup(tk, tk.url, pool, conn)

(***************************************************************************)
(* Precompute status, api/routes/ml_inference.py:151-169 and 292-340.  A   *)
(* status is the JSON document stored under "status:<image_id>" through    *)
(* CacheService.set_tile, so it lives in the two tiers of the tile cache.  *)
(***************************************************************************)
Available == [status |-> "available", progress |-> 0]

Processing(progress) == [status |-> "processing", progress |-> progress]

Completed == [status |-> "completed", progress |-> 100]

ErrorStatus(message) == [status |-> "error", message |-> message]

StatusKey(image_id) == "status:" \o image_id

(* json.loads(status.decode()) succeeds on what a run stored and raises on
   the bytes of a tile *)
IsStatusDocument(v) == "status" \in DOMAIN v

(* get_ml_status, lines 151-169: initialize when not connected, read the
   key, decode; every exception becomes an error status *)
get_ml_status(memory, shared, conn, image_id, ping, rd) ==
    LET conn1  == conn \/ initialize(ping)
        status == get_tile(memory, shared, conn1, StatusKey(image_id), rd).value
    IN IF status = None THEN Available
       ELSE IF IsStatusDocument(status[1]) THEN status[1]
       ELSE ErrorStatus("decode")

(* a progress in percent of the levels done *)
LevelProgressPercent(n, total) == Trunc(n * 100, total)

(* int(10 + ((i + 1) / total_levels) * 85), line 320, after level number n
   of total; the float expression and the integer one agree for every
   total up to 40 *)
LevelProgress(n, total) == Trunc(10 * total + n * 85, total)

(* int(10 + (i * 9)), line 309 *)
SimProgress(i) == 10 + i * 9

(* range(1, 11), line 307 *)
SimSteps == 10

(* await update_status(5), line 302 *)
FirstProgress == 5

(* get_dynamic_tile(image_url, z, 0, 0, enhance=True), line 318: the inner
   call of a run, with the defaults of tile_service.py:161-175 *)
RunCall(run, z, mem) ==
    LET k == DynKey(run.url[1], z, 0, 0, TRUE, FALSE, "0.5", DefaultQuality)
    IN [IdleReq EXCEPT !.op = "proxy_tile", !.url = run.url[1], !.z = z,
                       !.enhance = TRUE, !.req_quality = DefaultQuality,
                       !.quality = DefaultQuality, !.depth = 1,
                       !.local0 = DictGet(mem, k), !.shared0 = RedisGet(redis, k),
                       !.run = run]

(* the task has returned *)
RunDone(run) ==
    [IdleReq EXCEPT !.op = "precompute", !.pc = "done", !.image_id = run.image_id,
                    !.run = [run EXCEPT !.active = FALSE, !.pending = None]]

(* the task waits for the shared tier to answer the write of a status *)
RunAwaitSetex(run, status) ==
    [IdleReq EXCEPT !.op = "precompute", !.pc = "status_setex",
                    !.image_id = run.image_id, !.key = StatusKey(run.image_id),
                    !.run = [run EXCEPT !.pending = Some(status)]]

(* await asyncio.sleep(0.5), line 308 *)
RunAwaitSleep(run) ==
    [IdleReq EXCEPT !.op = "precompute", !.pc = "sleep", !.image_id = run.image_id,
                    !.run = run]

(***************************************************************************)
(* The task from one await to the next.  set_tile writes the local tier    *)
(* and suspends only if the service is connected (cache_service.py:48-54), *)
(* so with the shared tier down the task runs on to the next call that     *)
(* suspends.  RunStatusWrite is a set_tile of a status; RunContinue is     *)
(* what follows it: lines 304-325.  Both give the request and the local    *)
(* tier at the next await.  No exception reaches the handler of line 328:  *)
(* set_tile and get_dynamic_tile catch their own.                          *)
(***************************************************************************)
RECURSIVE RunStatusWrite(_, _, _, _, _)
RECURSIVE RunContinue(_, _, _, _, _)

RunStatusWrite(run, status, mem, pool, conn) ==
    LET mem1 == LocalPut(mem, StatusKey(run.image_id), status)
        run1 == [run EXCEPT !.writes = Append(@, status)]
    IN IF conn THEN [tk |-> RunAwaitSetex(run1, status), mem |-> mem1]
       ELSE RunContinue(run1, status, mem1, pool, conn)

RunContinue(run, status, mem, pool, conn) ==
    IF status.status # "processing" THEN [tk |-> RunDone(run), mem |-> mem]
    ELSE IF run.url = None
    THEN IF run.i < SimSteps THEN [tk |-> RunAwaitSleep(run), mem |-> mem]
         ELSE RunStatusWrite(run, Completed, mem, pool, conn)
    ELSE IF run.i < Len(run.levels)
    THEN [tk  |-> GfiEnter(RunCall([run EXCEPT !.i = @ + 1], run.levels[run.i + 1], mem),
                           pool, conn),
          mem |-> mem]
    ELSE RunStatusWrite(run, Completed, mem, pool, conn)

(* lines 318-321: get_dynamic_tile has returned to the task *)
RunAfterTile(tk, mem, pool, conn) ==
    LET run == [tk.run EXCEPT !.tiles = Append(@, tk.result)]
    IN RunStatusWrite(run, Processing(LevelProgress(run.i, Len(run.levels))),
                      mem, pool, conn)

(* A step leaves the request tk and the local tier mem; when tk is the
   return of a call made by a precompute task, the task runs on. *)
Settle(t, tk, mem, conn) ==
    IF tk.run.active /\ tk.pc = "done"
    THEN LET r == RunAfterTile(tk, mem, source_image_cache, conn)
         IN /\ req' = [req EXCEPT ![t] = r.tk]
            /\ memory_cache' = r.mem
    ELSE /\ req' = [req EXCEPT ![t] = tk]
         /\ memory_cache' = mem

(***************************************************************************)
(* The tile of a cache miss: tile_service.py:201-249 for get_dynamic_tile  *)
(* and 65-110 for get_tile.                                                *)
(*   srLoad   what _load_sr_model leaves in models['sr'] if it runs        *)
(*   fail     the enhancement operations that fail                         *)
(*   lib      "raise" when the imaging library refuses the tile            *)
(* ml says whether the models were used, err whether an exception ended    *)
(* the computation.                                                        *)
(***************************************************************************)
EncodedTile(out, format, quality, ran) ==
    IF out = None THEN [tile |-> None, ml |-> ran, err |-> TRUE]
    ELSE [tile |-> Some(Encoded(out[1], format, quality)), ml |-> ran, err |-> FALSE]

(* the tile when the models are loaded anew for every request *)
ComputedReloading(tk, srLoad, fail, lib) ==
    LET sr == srLoad
    IN IF tk.op = "proxy_tile"
       THEN LET img  == tk.image[1]
                plan == CropPlan(tk.z, tk.x, tk.y, DefaultTileSize, img.w, img.h)
            IN IF plan.oob THEN [tile |-> None, ml |-> FALSE, err |-> FALSE]
               ELSE IF plan.empty /\ lib = "raise"
               THEN [tile |-> None, ml |-> FALSE, err |-> TRUE]
               ELSE EncodedTile(
                        Enhance(TileImage(img, plan.box, plan.target_w, plan.target_h),
                                tk.enhance, tk.labels, TRUE, sr, fail),
                        "JPEG", tk.quality, TRUE)
       ELSE LET disk == DiskTile(tk.image_id, tk.z, tk.x, tk.y)
            IN IF disk = None THEN [tile |-> None, ml |-> FALSE, err |-> FALSE]
               ELSE IF lib = "raise" THEN [tile |-> None, ml |-> FALSE, err |-> TRUE]
               ELSE EncodedTile(
                        Enhance(TileImage(disk[1], <<0, 0, disk[1].w, disk[1].h>>,
                                          disk[1].w, disk[1].h),
                                tk.enhance, tk.labels, TRUE, sr, fail),
                        IF disk[1].mode # "RGBA" THEN "JPEG" ELSE "PNG",
                        LocalQuality, TRUE)

Computed(tk, srLoad, fail, lib) ==
    LET sr == IF models_loaded THEN models.sr ELSE srLoad
    IN IF tk.op = "proxy_tile"
       THEN LET img  == tk.image[1]
                plan == CropPlan(tk.z, tk.x, tk.y, DefaultTileSize, img.w, img.h)
            IN IF plan.oob THEN [tile |-> None, ml |-> FALSE, err |-> FALSE]
               ELSE IF plan.empty /\ lib = "raise"
               THEN [tile |-> None, ml |-> FALSE, err |-> TRUE]
               ELSE EncodedTile(
                        Enhance(TileImage(img, plan.box, plan.target_w, plan.target_h),
                                tk.enhance, tk.labels, TRUE, sr, fail),
                        "JPEG", tk.quality, TRUE)
       ELSE LET disk == DiskTile(tk.image_id, tk.z, tk.x, tk.y)
            IN IF disk = None THEN [tile |-> None, ml |-> FALSE, err |-> FALSE]
               ELSE IF lib = "raise" THEN [tile |-> None, ml |-> FALSE, err |-> TRUE]
               ELSE EncodedTile(
                        Enhance(TileImage(disk[1], <<0, 0, disk[1].w, disk[1].h>>,
                                          disk[1].w, disk[1].h),
                                tk.enhance, tk.labels, TRUE, sr, fail),
                        IF disk[1].mode # "RGBA" THEN "JPEG" ELSE "PNG",
                        LocalQuality, TRUE)

(* the enhancement operations a request asks for *)
UsedOps(tk) ==
    (IF tk.enhance THEN {"sr", "denoise"} ELSE {}) \cup (IF tk.labels THEN {"labels"} ELSE {})

(***************************************************************************)
(* From the answer of the cache read to the next await: tile_service.py    *)
(* 198-251 and 61-113.  None of the calls in between suspends: the         *)
(* enhancement coroutines await nothing that yields, and set_tile writes   *)
(* the local tier before its only await.                                   *)
(*   ans    what CacheService.get_tile did                                 *)
(*   conn   self.connected at the time of set_tile                         *)
(***************************************************************************)
AfterCacheRead(t, tk, ans, conn, srLoad, fail, lib) ==
    IF ans.raised
    THEN /\ Settle(t, Raised(tk, FALSE), memory_cache, conn)
         /\ UNCHANGED <<models_loaded, models>>
    ELSE IF ans.value # None
    THEN /\ Settle(t, Finish([tk EXCEPT !.hit = TRUE], ans.value), memory_cache, conn)
         /\ UNCHANGED <<models_loaded, models>>
    ELSE LET c   == Computed(tk, srLoad, fail, lib)
             tk1 == [tk EXCEPT !.fresh = c.tile, !.procErr = c.err /\ ~c.ml,
                               !.mlFail = IF c.ml THEN fail \cap UsedOps(tk) ELSE {}]
         IN /\ models_loaded' = (models_loaded \/ c.ml)
            /\ models' = IF c.ml /\ ~models_loaded THEN [sr |-> srLoad] ELSE models
            /\ IF c.tile = None
               THEN Settle(t, Finish(tk1, None), memory_cache, conn)
               ELSE Settle(t, IF conn THEN [tk1 EXCEPT !.pc = "setex"]
                              ELSE Finish(tk1, c.tile),
                           set_tile(memory_cache, redis, conn, tk.key, c.tile[1], "ok").memory,
                           conn)

(* what the asset API may answer: an exception, a non-200 status, or 200 *)
LookupResponses ==
    {[kind |-> "error", links |-> <<>>],
     [kind |-> "status", links |-> <<>>],
     [kind |-> "ok", links |-> <<ThumbUrl>>],
     [kind |-> "ok", links |-> <<OrigTifUrl, OrigUrl, ThumbUrl>>]}

(* what the origin may answer to the image fetch: 200 with an image, another
   status, a timeout, or any other exception (transport, undecodable body) *)
FetchOutcomes == {"ok", "status", "timeout", "error"}

(* lines 276-285: the reference to fetch, given the answer of the asset API *)
ResolvedUrl(url, resp) ==
    IF resp.kind = "ok" /\ PickOrig(resp.links) # None THEN PickOrig(resp.links)[1] ELSE url

LookupResult(url, resp) ==
    IF resp.kind # "ok" THEN resp.kind
    ELSE IF ResolvedUrl(url, resp) = url THEN "nocandidate" ELSE "resolved"

GfiLookup(t, resp) ==
    /\ req[t].pc = "lookup"
    /\ LET tk == [req[t] EXCEPT !.net = Append(@, [kind |-> "lookup", url |-> req[t].url,
                                                   res |-> LookupResult(req[t].url, resp)])]
       IN req' = [req EXCEPT ![t] =
                    GfiPoolLookup(tk, ResolvedUrl(tk.url, resp), source_image_cache, connected)]
    /\ UNCHANGED <<main, connected, memory_cache, redis, source_image_cache, models_loaded, models>>

(* the fallback without the test actual_url != url *)
FetchFallsBackAnyRef(url, actual_url, outcome) == outcome \in {"status", "timeout"}

(* lines 306-309 and 313-316: the failures after which the call starts over *)
FetchFallsBack(url, actual_url, outcome) ==
    outcome \in {"status", "timeout"} /\ actual_url # url

(* lines 294-321: the answer of the origin arrives *)
GfiFetch(t, outcome) ==
    /\ req[t].pc = "fetch"
    /\ LET tk == [req[t] EXCEPT !.net = Append(@, [kind |-> "fetch", url |-> req[t].actual,
                                                   res |-> outcome])]
       IN IF outcome = "ok"
          THEN /\ source_image_cache' = PoolPut(source_image_cache, tk.actual, ImageOf(tk.actual))
               /\ req' = [req EXCEPT ![t] = GfiReturn(tk, Some(ImageOf(tk.actual)), connected)]
               /\ UNCHANGED memory_cache
          ELSE /\ UNCHANGED source_image_cache
               /\ Settle(t, IF FetchFallsBack(tk.url, tk.actual, outcome)
                             THEN GfiEnter([tk EXCEPT !.depth = @ + 1],
                                           source_image_cache, connected)
                             ELSE GfiReturn(tk, None, connected),
                          memory_cache, connected)
    /\ UNCHANGED <<main, connected, redis, models_loaded, models>>

(***************************************************************************)
(* Requests and what the environment may answer.                           *)
(***************************************************************************)
ProxyReq(url, z, x, y, enhance, labels, quality) ==
    [url |-> url, z |-> z, x |-> x, y |-> y, enhance |-> enhance, labels |-> labels,
     conf |-> "0.5", quality |-> quality]

LocalReq(image_id, z, x, y, enhance, labels) ==
    [image_id |-> image_id, z |-> z, x |-> x, y |-> y, enhance |-> enhance,
     labels |-> labels, conf |-> "0.5"]

ProxyRequests ==
    {ProxyReq(ThumbUrl, 10, 0, 0, FALSE, FALSE, 90),
     ProxyReq(ThumbUrl, 10, 5, 0, FALSE, FALSE, 90),
     ProxyReq(PlainUrl, 10, 4, 0, FALSE, FALSE, 50)}

LocalRequests ==
    {LocalReq(MarsId, 0, 0, 0, FALSE, FALSE),
     LocalReq(MarsId, 0, 1, 0, FALSE, FALSE)}

SrLoadOutcomes == {"none", "realesrgan"}

LibOutcomes == {"ok", "raise"}

RedisOutcomes == {"ok", "raise"}

(* api/routes/tiles.py:84-108 calls get_dynamic_tile without quality and
   without tile_size; tile_service.py:177-179 *)
StartProxyTile(t, r) ==
    /\ req[t].pc \in {"idle", "done"}
    /\ LET k  == DynKey(r.url, r.z, r.x, r.y, r.enhance, r.labels, r.conf, DefaultQuality)
           tk == [IdleReq EXCEPT !.op = "proxy_tile", !.url = r.url,
                                 !.z = r.z, !.x = r.x, !.y = r.y,
                                 !.enhance = r.enhance, !.labels = r.labels, !.conf = r.conf,
                                 !.req_quality = r.quality, !.quality = DefaultQuality,
                                 !.depth = 1,
                                 !.local0 = DictGet(memory_cache, k),
                                 !.shared0 = RedisGet(redis, k)]
       IN req' = [req EXCEPT ![t] = GfiEnter(tk, source_image_cache, connected)]
    /\ UNCHANGED <<main, connected, memory_cache, redis, source_image_cache, models_loaded, models>>

(* api/routes/tiles.py:70-76, tile_service.py:126-128 *)
StartProxyInfo(t, url) ==
    /\ req[t].pc \in {"idle", "done"}
    /\ req' = [req EXCEPT ![t] =
                 GfiEnter([IdleReq EXCEPT !.op = "proxy_info", !.url = url, !.depth = 1],
                          source_image_cache, connected)]
    /\ UNCHANGED <<main, connected, memory_cache, redis, source_image_cache, models_loaded, models>>

(* api/routes/tiles.py:18-49, tile_service.py:53-60 *)
StartLocalTile(t, r) ==
    /\ req[t].pc \in {"idle", "done"}
    /\ LET k == LocalKey(r.image_id, r.z, r.x, r.y, r.enhance, r.labels, r.conf)
       IN req' = [req EXCEPT ![t] =
                    [IdleReq EXCEPT !.op = "local_tile", !.image_id = r.image_id,
                                    !.z = r.z, !.x = r.x, !.y = r.y,
                                    !.enhance = r.enhance, !.labels = r.labels,
                                    !.conf = r.conf, !.quality = LocalQuality,
                                    !.key = k,
                                    !.local0 = DictGet(memory_cache, k),
                                    !.shared0 = RedisGet(redis, k),
                                    !.pc = IF connected THEN "get" ELSE "init"]]
    /\ UNCHANGED <<main, connected, memory_cache, redis, source_image_cache, models_loaded, models>>

(* tile_service.py:194-197 and 57-60: initialize answers; when it failed,
   get_tile reads the local tier without suspending *)
CacheInit(t, ping, srLoad, fail, lib) ==
    /\ req[t].pc = "init"
    /\ connected' = initialize(ping)
    /\ IF initialize(ping)
       THEN /\ req' = [req EXCEPT ![t].pc = "get"]
            /\ UNCHANGED <<memory_cache, models_loaded, models>>
       ELSE AfterCacheRead(t, [req[t] EXCEPT !.cacheErr = TRUE],
                           get_tile(memory_cache, redis, FALSE, req[t].key, "ok"),
                           FALSE, srLoad, fail, lib)
    /\ UNCHANGED <<main, redis, source_image_cache>>

(* tile_service.py:197 and 60: the shared tier answers the read *)
CacheGet(t, rd, srLoad, fail, lib) ==
    /\ req[t].pc = "get"
    /\ AfterCacheRead(t, [req[t] EXCEPT !.cacheErr = (rd = "raise")],
                      get_tile(memory_cache, redis, TRUE, req[t].key, rd),
                      TRUE, srLoad, fail, lib)
    /\ UNCHANGED <<main, connected, redis, source_image_cache>>

(* tile_service.py:251-252 and 113-115: the shared tier answers the write *)
CacheSetex(t, wr) ==
    /\ req[t].pc = "setex"
    /\ LET st == set_tile(memory_cache, redis, TRUE, req[t].key, req[t].fresh[1], wr)
           tk == [req[t] EXCEPT !.storeErr = (wr = "raise")]
       IN /\ redis' = st.shared
          /\ Settle(t, IF st.raised THEN Raised(tk, TRUE) ELSE Finish(tk, tk.fresh),
                    memory_cache, connected)
    /\ UNCHANGED <<main, connected, source_image_cache, models_loaded, models>>

(***************************************************************************)
(* The precompute task, api/routes/ml_inference.py:292-340.  The route     *)
(* (lines 219-247) only schedules it.                                      *)
(***************************************************************************)
(* a precompute request: image_url is optional *)
PrecomputeReq(image_id, image_url, zoom_levels) ==
    [image_id |-> image_id, image_url |-> image_url, zoom_levels |-> zoom_levels]

(* lines 296-302: the task starts and writes its first status.
   `if not image_url` (line 304) also takes the empty string for absent. *)
StartPrecompute(t, r) ==
    /\ req[t].pc \in {"idle", "done"}
    /\ LET run == [NoRun EXCEPT !.active = TRUE, !.image_id = r.image_id,
                                !.url = r.image_url, !.levels = r.zoom_levels,
                                !.started = req[t].run.started \cup {r.image_id}]
           res == RunStatusWrite(run, Processing(FirstProgress), memory_cache,
                                 source_image_cache, connected)
       IN /\ req' = [req EXCEPT ![t] = res.tk]
          /\ memory_cache' = res.mem
    /\ UNCHANGED <<main, connected, redis, source_image_cache, models_loaded, models>>

(* cache_service.py:53-57 inside the task: the shared tier answers the write
   of a status; a failure is logged and the task goes on *)
StatusSetex(t, wr) ==
    /\ req[t].pc = "status_setex"
    /\ LET run == req[t].run
           res == RunContinue([run EXCEPT !.pending = None], run.pending[1], memory_cache,
                              source_image_cache, connected)
       IN /\ redis' = setex(redis, req[t].key, run.pending[1], wr)
          /\ req' = [req EXCEPT ![t] = res.tk]
          /\ memory_cache' = res.mem
    /\ UNCHANGED <<main, connected, source_image_cache, models_loaded, models>>

(* lines 307-309: the sleep of a simulation step ends *)
SimSleep(t) ==
    /\ req[t].pc = "sleep"
    /\ LET run == [req[t].run EXCEPT !.i = @ + 1]
           res == RunStatusWrite(run, Processing(SimProgress(run.i)), memory_cache,
                                 source_image_cache, connected)
       IN /\ req' = [req EXCEPT ![t] = res.tk]
          /\ memory_cache' = res.mem
    /\ UNCHANGED <<main, connected, redis, source_image_cache, models_loaded, models>>

(***************************************************************************)
(* Invalidation, cache_service.py:90-121.  redis_client.keys(pattern)      *)
(* matches glob-style: '*' any run of characters, '?' one character,       *)
(* '[...]' one character of a class ('^' negates it), anything else        *)
(* itself.  Classes are matched without ranges and without escapes.        *)
(***************************************************************************)
CharAt(s, i) == SubSeq(s, i, i)

(* the index of the ']' that closes the class opened at i, 0 if none *)
ClassEnd(p, i) ==
    LET ends == {n \in (i + 2)..Len(p) : CharAt(p, n) = "]"}
    IN IF ends = {} THEN 0 ELSE CHOOSE n \in ends : \A m \in ends : n <= m

InClass(p, i, e, c) ==
    LET negated == CharAt(p, i + 1) = "^"
        first   == IF negated THEN i + 2 ELSE i + 1
        member  == \E n \in first..(e - 1) : CharAt(p, n) = c
    IN IF negated THEN ~member ELSE member

(* pattern p from index i matches key k from index j *)
RECURSIVE GlobMatchFrom(_, _, _, _)
GlobMatchFrom(p, i, k, j) ==
    IF i > Len(p) THEN j > Len(k)
    ELSE IF CharAt(p, i) = "*"
    THEN GlobMatchFrom(p, i + 1, k, j) \/ (j <= Len(k) /\ GlobMatchFrom(p, i, k, j + 1))
    ELSE IF j > Len(k) THEN FALSE
    ELSE IF CharAt(p, i) = "?" THEN GlobMatchFrom(p, i + 1, k, j + 1)
    ELSE IF CharAt(p, i) = "[" /\ ClassEnd(p, i) # 0
    THEN /\ InClass(p, i, ClassEnd(p, i), CharAt(k, j))
         /\ GlobMatchFrom(p, ClassEnd(p, i) + 1, k, j + 1)
    ELSE CharAt(p, i) = CharAt(k, j) /\ GlobMatchFrom(p, i + 1, k, j + 1)

GlobMatch(pattern, key) == GlobMatchFrom(pattern, 1, key, 1)

(* redis_client.keys(pattern) *)
KeysMatching(shared, pattern) == {k \in DOMAIN shared : GlobMatch(pattern, k)}

(* redis_client.delete, lines 101 and 117 *)
DeleteKeys(shared, keys) == [k \in (DOMAIN shared) \ keys |-> shared[k]]

(* cache_service.py:113 *)
ImagePattern(image_id) == image_id \o ":*"

(* cache_service.py:97 *)
TilePattern(image_id, z, x, y) ==
    image_id \o ":" \o ToString(z) \o ":" \o ToString(x) \o ":" \o ToString(y) \o ":*"

StartsWith(key, prefix) ==
    Len(key) >= Len(prefix) /\ SubSeq(key, 1, Len(prefix)) = prefix

(* lines 93-94 and 110-111: not connected, the call returns at once;
   otherwise it awaits the keys *)
InvalidateEnter(tk, conn) ==
    IF conn THEN [tk EXCEPT !.pc = "keys"]
    ELSE [tk EXCEPT !.pc = "done", !.status = 200, !.cacheErr = TRUE]

(* api/routes/tiles.py:151-162, cache_service.py:107-114 *)
StartInvalidateImage(t, image_id) ==
    /\ req[t].pc \in {"idle", "done"}
    /\ req' = [req EXCEPT ![t] =
                 InvalidateEnter([IdleReq EXCEPT !.op = "invalidate_image",
                                                 !.image_id = image_id,
                                                 !.pattern = ImagePattern(image_id)],
                                 connected)]
    /\ UNCHANGED <<main, connected, memory_cache, redis, source_image_cache, models_loaded, models>>

(* cache_service.py:90-98 *)
StartInvalidateTile(t, image_id, z, x, y) ==
    /\ req[t].pc \in {"idle", "done"}
    /\ req' = [req EXCEPT ![t] =
                 InvalidateEnter([IdleReq EXCEPT !.op = "invalidate_tile",
                                                 !.image_id = image_id,
                                                 !.z = z, !.x = x, !.y = y,
                                                 !.pattern = TilePattern(image_id, z, x, y)],
                                 connected)]
    /\ UNCHANGED <<main, connected, memory_cache, redis, source_image_cache, models_loaded, models>>

(* lines 98-100 and 114-116: the shared tier answers keys(pattern); an
   exception is logged and the call returns (104-105, 120-121) *)
InvalidateKeys(t, ks) ==
    /\ req[t].pc = "keys"
    /\ LET keys == IF ks = "ok" THEN KeysMatching(redis, req[t].pattern) ELSE {}
           tk   == [req[t] EXCEPT !.keys = keys, !.cacheErr = (ks = "raise")]
       IN req' = [req EXCEPT ![t] =
                    IF keys = {} THEN [tk EXCEPT !.pc = "done", !.status = 200]
                    ELSE [tk EXCEPT !.pc = "delete"]]
    /\ UNCHANGED <<main, connected, memory_cache, redis, source_image_cache, models_loaded, models>>

(* an invalidation that purges the local tier as well *)
InvalidateDeleteBothTiers(t, dl) ==
    /\ req[t].pc = "delete"
    /\ redis' = IF dl = "ok" THEN DeleteKeys(redis, req[t].keys) ELSE redis
    /\ memory_cache' = SelectSeq(memory_cache, LAMBDA e : e.k \notin req[t].keys)
    /\ req' = [req EXCEPT ![t] = [req[t] EXCEPT !.pc = "done", !.status = 200,
                                                !.storeErr = (dl = "raise")]]
    /\ UNCHANGED <<main, connected, source_image_cache, models_loaded, models>>

(* lines 101 and 117: the shared tier answers the delete *)
InvalidateDelete(t, dl) ==
    /\ req[t].pc = "delete"
    /\ redis' = IF dl = "ok" THEN DeleteKeys(redis, req[t].keys) ELSE redis
    /\ req' = [req EXCEPT ![t] = [req[t] EXCEPT !.pc = "done", !.status = 200,
                                                !.storeErr = (dl = "raise")]]
    /\ UNCHANGED <<main, connected, memory_cache, source_image_cache, models_loaded, models>>

(* the process is started again: the shared tier keeps its contents *)
Restart ==
    /\ connected' = FALSE
    /\ memory_cache' = <<>>
    /\ source_image_cache' = <<>>
    /\ models_loaded' = FALSE
    /\ models' = [sr |-> "unset"]
    /\ req' = [t \in DOMAIN req |-> IdleReq]
    /\ main' = MainInit
    /\ UNCHANGED redis

Next ==
    \/ \E t \in DOMAIN req, r \in ProxyRequests : StartProxyTile(t, r)
    \/ \E t \in DOMAIN req, r \in LocalRequests : StartLocalTile(t, r)
    \/ \E t \in DOMAIN req, resp \in LookupResponses : GfiLookup(t, resp)
    \/ \E t \in DOMAIN req, outcome \in FetchOutcomes : GfiFetch(t, outcome)
    \/ \E t \in DOMAIN req, ping \in RedisOutcomes, srLoad \in SrLoadOutcomes,
          lib \in LibOutcomes : CacheInit(t, ping, srLoad, {}, lib)
    \/ \E t \in DOMAIN req, rd \in RedisOutcomes, srLoad \in SrLoadOutcomes,
          lib \in LibOutcomes : CacheGet(t, rd, srLoad, {}, lib)
    \/ \E t \in DOMAIN req, wr \in RedisOutcomes : CacheSetex(t, wr)
    \/ Restart

Spec == Init /\ [][Next]_vars

(***************************************************************************)
(* The same pipeline with requests that ask for enhancement and labels,    *)
(* and enhancement operations that fail.                                   *)
(***************************************************************************)
MlProxyRequests == {ProxyReq(PlainUrl, 10, 0, 0, TRUE, TRUE, 90)}

MlLocalRequests == {LocalReq(MarsId, 0, 0, 0, FALSE, TRUE)}

MlFailSets == {{}, {"sr"}, {"denoise"}, {"labels"}, {"sr", "denoise", "labels"}}

NextMl ==
    \/ \E t \in DOMAIN req, r \in MlProxyRequests : StartProxyTile(t, r)
    \/ \E t \in DOMAIN req, r \in MlLocalRequests : StartLocalTile(t, r)
    \/ \E t \in DOMAIN req, outcome \in FetchOutcomes : GfiFetch(t, outcome)
    \/ \E t \in DOMAIN req, ping \in RedisOutcomes, srLoad \in SrLoadOutcomes,
          fail \in MlFailSets : CacheInit(t, ping, srLoad, fail, "ok")
    \/ \E t \in DOMAIN req, rd \in RedisOutcomes, srLoad \in SrLoadOutcomes,
          fail \in MlFailSets : CacheGet(t, rd, srLoad, fail, "ok")
    \/ \E t \in DOMAIN req, wr \in RedisOutcomes : CacheSetex(t, wr)

SpecMl == Init /\ [][NextMl]_vars

(***************************************************************************)
(* Properties.                                                             *)
(***************************************************************************)
Done(t) == req[t].pc = "done"

RECURSIVE CountIn(_, _, _)
CountIn(net, kind, url) ==
    IF net = <<>> THEN 0
    ELSE (IF Head(net).kind = kind /\ Head(net).url = url THEN 1 ELSE 0)
         + CountIn(Tail(net), kind, url)

Lookups(t) == CountIn(req[t].net, "lookup", req[t].url)

FetchesOf(t, u) == CountIn(req[t].net, "fetch", u)

(* the first call's lookup of the original did not yield a reference *)
LookupFailed(t) ==
    /\ Len(req[t].net) >= 1
    /\ req[t].net[1].kind = "lookup"
    /\ req[t].net[1].res \in {"error", "status", "nocandidate"}

(* the reasons for which a request has no tile to return *)
SourceUnavailable(t) == req[t].op = "proxy_tile" /\ req[t].image = None

TileOutOfRange(t) ==
    /\ req[t].op = "proxy_tile"
    /\ req[t].image # None
    /\ CropPlan(req[t].z, req[t].x, req[t].y, DefaultTileSize,
                req[t].image[1].w, req[t].image[1].h).oob

TileFileMissing(t) ==
    /\ req[t].op = "local_tile"
    /\ DiskTile(req[t].image_id, req[t].z, req[t].x, req[t].y) = None

Absent(t) ==
    SourceUnavailable(t) \/ TileOutOfRange(t) \/ TileFileMissing(t) \/ req[t].procErr

(* C1: on both tile routes a request for which the tile service returns no
   tile is answered 404, never a server error. *)
C1_AbsentTileIs404 ==
    \A t \in DOMAIN req : Done(t) /\ req[t].result = None => req[t].status = 404

(* C2: a proxy request with z above the maximum level of the source image
   returns no tile, and no tile is produced for it. *)
C2_AboveMaxLevelAbsent ==
    \A t \in DOMAIN req :
        (/\ Done(t)
         /\ req[t].op = "proxy_tile"
         /\ req[t].image # None
         /\ req[t].z > MaxLevel(req[t].image[1].w, req[t].image[1].h))
        => req[t].result = None /\ req[t].fresh = None

(* C3: one call of the resolver looks the original up at most once, fetches
   the resolved original at most once and the unresolved reference at most
   once, and goes at most one fallback hop deep. *)
C3_OneFallbackHop ==
    \A t \in DOMAIN req :
        /\ Lookups(t) <= 1
        /\ FetchesOf(t, OrigUrl) <= 1
        /\ FetchesOf(t, req[t].url) <= 1
        /\ req[t].depth <= 2

(* C4 as stated: when the lookup of the original fails, the resolver
   fetches the unresolved reference exactly once. *)
C4_FetchesUnresolvedOnce ==
    \A t \in DOMAIN req : Done(t) /\ LookupFailed(t) => FetchesOf(t, req[t].url) = 1

(* C4 amended: when the lookup of the original fails, the resolver does not
   start over and fetches nothing but the unresolved reference: exactly
   once when that reference is not in the pool, not at all when it is. *)
C4_FetchesUnresolvedOnceUnlessPooled ==
    \A t \in DOMAIN req :
        LookupFailed(t) =>
            /\ req[t].depth = 1
            /\ Lookups(t) = 1
            /\ Len(req[t].net) <= 2
            /\ FetchesOf(t, req[t].url) = Len(req[t].net) - 1
            /\ Done(t) => FetchesOf(t, req[t].url) = (IF req[t].poolHit THEN 0 ELSE 1)

C4_Witness ==
    \E t \in DOMAIN req :
        /\ Done(t)
        /\ LookupFailed(t)
        /\ ~req[t].poolHit
        /\ FetchesOf(t, req[t].url) = 1
        /\ req[t].net[2].res = "timeout"

(* C5: a request that met an unreachable shared tier (initialize failed, or
   the read or the write raised) has no tile only for a reason that is not
   the cache; otherwise it is answered 200 with the tile of the local tier
   or the freshly computed one. *)
C5_FailOpen ==
    \A t \in DOMAIN req :
        Done(t) /\ (req[t].cacheErr \/ req[t].storeErr) =>
            /\ req[t].result = None => Absent(t)
            /\ req[t].result # None =>
                  /\ req[t].status = 200
                  /\ req[t].result = (IF req[t].hit THEN req[t].local0 ELSE req[t].fresh)

C5_Witness ==
    \E t \in DOMAIN req :
        /\ Done(t)
        /\ req[t].cacheErr
        /\ connected
        /\ req[t].result # None
        /\ req[t].result = req[t].fresh

(* C6: a request whose key is in the cache when it arrives is answered from
   the cache and makes no call of the resolver. *)
C6_CacheBeforeResolver ==
    \A t \in DOMAIN req :
        req[t].local0 # None =>
            /\ req[t].net = <<>>
            /\ Done(t) => req[t].hit /\ req[t].result # None

(* C7: a request that would return a tile returns one whatever enhancement
   operation fails, and the tile is made from the image without the
   operations that failed. *)
OpsOf(t) == {req[t].result[1].img.ops[i] : i \in 1..Len(req[t].result[1].img.ops)}

C7_EnhancementFailureSwallowed ==
    \A t \in DOMAIN req :
        Done(t) /\ ~req[t].hit /\ ~Absent(t) =>
            /\ req[t].result # None
            /\ req[t].status = 200
            /\ req[t].result = req[t].fresh
            /\ "sr" \in req[t].mlFail => OpsOf(t) \cap {"lanczos2x", "realesrgan"} = {}
            /\ "denoise" \in req[t].mlFail => "bilateral" \notin OpsOf(t)
            /\ "labels" \in req[t].mlFail => "labels" \notin OpsOf(t)
            /\ req[t].mlFail = UsedOps(req[t]) => OpsOf(t) = {}

C7_Witness ==
    \E t \in DOMAIN req :
        /\ Done(t)
        /\ req[t].op = "proxy_tile"
        /\ req[t].mlFail = {"sr", "denoise", "labels"}
        /\ models.sr = "none"
        /\ req[t].result # None

(* C8: when the write of the shared tier fails, the request still returns
   the tile it computed. *)
C8_StoreFailureNotPropagated ==
    \A t \in DOMAIN req :
        Done(t) /\ req[t].storeErr =>
            /\ req[t].fresh # None
            /\ req[t].result = req[t].fresh
            /\ req[t].status = 200

C8_Witness ==
    \E t \in DOMAIN req :
        /\ Done(t)
        /\ req[t].storeErr
        /\ req[t].result # None
        /\ RedisGet(redis, req[t].key) # req[t].result

(* C9: in every reachable state of the two tiers, set_tile(K, b) that
   succeeds followed at once by get_tile(K) returns b. *)
RtKeys ==
    DOMAIN redis \cup DictKeys(memory_cache)
    \cup {LocalKey(MarsId, 0, 0, 0, FALSE, FALSE, "0.5")}

RtValues ==
    {Encoded(TileImage(ImageOf(u), <<0, 0, 256, 256>>, 256, 256), "JPEG", DefaultQuality) :
        u \in {OrigUrl, ThumbUrl}}

C9_RoundTrip ==
    \A k \in RtKeys, b \in RtValues, wr \in RedisOutcomes, rd \in RedisOutcomes :
        LET st == set_tile(memory_cache, redis, connected, k, b, wr)
        IN (~st.raised /\ (connected => wr = "ok"))
           => get_tile(st.memory, st.shared, connected, k, rd).value = Some(b)

C9_Witness ==
    \E t \in DOMAIN req :
        /\ Done(t)
        /\ req[t].fresh # None
        /\ ~req[t].storeErr
        /\ connected
        /\ req[t].shared0 # None
        /\ req[t].shared0 # req[t].fresh
        /\ RedisGet(redis, req[t].key) = req[t].fresh
        /\ DictGet(memory_cache, req[t].key) = req[t].fresh
        /\ Len(memory_cache) = LocalCapacity

(***************************************************************************)
(* Cache keys of the two services.  An address is what a service is called *)
(* with: get_tile takes an identifier and no quality (it encodes at        *)
(* LocalQuality), get_dynamic_tile a reference and a quality.  The         *)
(* identifiers contain the delimiter, digits that continue into z, and the *)
(* prefix of the keys of get_dynamic_tile.                                 *)
(***************************************************************************)
KeyIds == {"a", "a1", "a:1", "dyn:md5-e610"}

KeyCoords == {<<2, 0, 0>>, <<12, 0, 0>>, <<1, 2, 0>>, <<10, 0, 0>>}

KeyAddresses ==
    {[space |-> "local", id |-> i, url |-> NoUrl, z |-> c[1], x |-> c[2], y |-> c[3],
      enhance |-> e, labels |-> FALSE, conf |-> "0.5", quality |-> LocalQuality] :
        i \in KeyIds, c \in KeyCoords, e \in BOOLEAN}
    \cup
    {[space |-> "url", id |-> "", url |-> u, z |-> c[1], x |-> c[2], y |-> c[3],
      enhance |-> e, labels |-> FALSE, conf |-> "0.5", quality |-> q] :
        u \in {PlainUrl, ThumbUrl}, c \in KeyCoords, e \in BOOLEAN, q \in {50, DefaultQuality}}

(* tile_service.py:54 and 190-191 *)
AddrKey(a) ==
    IF a.space = "local"
    THEN LocalKey(a.id, a.z, a.x, a.y, a.enhance, a.labels, a.conf)
    ELSE DynKey(a.url, a.z, a.x, a.y, a.enhance, a.labels, a.conf, a.quality)

(* the address a service was called with *)
ServiceAddr(tk) ==
    [space |-> IF tk.op = "proxy_tile" THEN "url" ELSE "local",
     id |-> tk.image_id, url |-> tk.url, z |-> tk.z, x |-> tk.x, y |-> tk.y,
     enhance |-> tk.enhance, labels |-> tk.labels, conf |-> tk.conf, quality |-> tk.quality]

KeyLocalRequests ==
    {LocalReq("a", 12, 0, 0, FALSE, FALSE),
     LocalReq("a1", 2, 0, 0, FALSE, FALSE),
     LocalReq("a:1", 2, 0, 0, FALSE, FALSE),
     LocalReq("dyn:md5-e610", 10, 0, 0, FALSE, FALSE)}

KeyProxyRequests == {ProxyReq(PlainUrl, 10, 0, 0, FALSE, FALSE, 90)}

NextKey ==
    \/ \E t \in DOMAIN req, r \in KeyProxyRequests : StartProxyTile(t, r)
    \/ \E t \in DOMAIN req, r \in KeyLocalRequests : StartLocalTile(t, r)
    \/ \E t \in DOMAIN req : GfiFetch(t, "ok")
    \/ \E t \in DOMAIN req, ping \in RedisOutcomes : CacheInit(t, ping, "none", {}, "ok")
    \/ \E t \in DOMAIN req, rd \in RedisOutcomes : CacheGet(t, rd, "none", {}, "ok")
    \/ \E t \in DOMAIN req, wr \in RedisOutcomes : CacheSetex(t, wr)

SpecKey == Init /\ [][NextKey]_vars

(* C11: two addresses that differ in a field have different key strings,
   within and across the two key spaces and with identifiers that contain
   ':'; the key a request reads and writes is the key of its own address
   and of no other. *)
C11_KeysCollisionFree ==
    /\ \A a, b \in KeyAddresses : a # b => AddrKey(a) # AddrKey(b)
    /\ \A t \in DOMAIN req :
          req[t].key # "" =>
              /\ ServiceAddr(req[t]) \in KeyAddresses
              /\ \A a \in KeyAddresses :
                    AddrKey(a) = req[t].key <=> a = ServiceAddr(req[t])

C11_Witness ==
    \E t \in DOMAIN req :
        /\ Done(t)
        /\ req[t].image_id = "a:1"
        /\ req[t].hit
        /\ req[t].result # None
        /\ DictHas(memory_cache, LocalKey("a", 12, 0, 0, FALSE, FALSE, "0.5"))

(***************************************************************************)
(* Proxy requests for one tile that differ in the quality asked for.       *)
(***************************************************************************)
QualityRequests ==
    {ProxyReq(PlainUrl, 10, 0, 0, FALSE, FALSE, 50),
     ProxyReq(PlainUrl, 10, 0, 0, FALSE, FALSE, 90)}

NextQuality ==
    \/ \E t \in DOMAIN req, r \in QualityRequests : StartProxyTile(t, r)
    \/ \E t \in DOMAIN req, outcome \in FetchOutcomes : GfiFetch(t, outcome)
    \/ \E t \in DOMAIN req, ping \in RedisOutcomes, srLoad \in SrLoadOutcomes :
          CacheInit(t, ping, srLoad, {}, "ok")
    \/ \E t \in DOMAIN req, rd \in RedisOutcomes, srLoad \in SrLoadOutcomes :
          CacheGet(t, rd, srLoad, {}, "ok")
    \/ \E t \in DOMAIN req, wr \in RedisOutcomes : CacheSetex(t, wr)
    \/ Restart

SpecQuality == Init /\ [][NextQuality]_vars

(* C12: a proxy request's tile is encoded at the quality the caller asked
   for and is cached under the key with that quality, so that a request is
   never answered with the tile of a request of another quality. *)
C12_CallerQualityUsed ==
    \A t \in DOMAIN req :
        req[t].op = "proxy_tile" =>
            /\ req[t].key # "" =>
                  req[t].key = DynKey(req[t].url, req[t].z, req[t].x, req[t].y, req[t].enhance,
                                      req[t].labels, req[t].conf, req[t].req_quality)
            /\ req[t].fresh # None => req[t].fresh[1].quality = req[t].req_quality
            /\ Done(t) /\ req[t].result # None => req[t].result[1].quality = req[t].req_quality

(***************************************************************************)
(* Discovery documents for images of several sizes.                        *)
(***************************************************************************)
LevelSide == 17

InfoSizes == {<<1, 1>>, <<1, 2>>, <<2, 1>>, <<256, 257>>, <<257, 256>>}

InfoUrls == {SizedUrl(s[1], s[2]) : s \in InfoSizes}

NextLevel ==
    \/ \E t \in DOMAIN req, u \in InfoUrls : StartProxyInfo(t, u)
    \/ \E t \in DOMAIN req, outcome \in FetchOutcomes : GfiFetch(t, outcome)
    \/ Restart

SpecLevel == Init /\ [][NextLevel]_vars

(* 2^max_level >= max(width, height) > 2^(max_level - 1), the right-hand
   side being 1/2 for max_level = 0 *)
LevelBounds(width, height, max_level) ==
    /\ max_level >= 0
    /\ Pow2(max_level) >= Max(width, height)
    /\ 2 * Max(width, height) > Pow2(max_level)

(* C13: maxLevel(width, height) = maxLevel(height, width) and
   2^maxLevel >= max(width, height) > 2^(maxLevel - 1), for all sides up to
   LevelSide and for the maxLevel of every discovery document served. *)
C13_MaxLevel ==
    /\ \A w, h \in 1..LevelSide :
          /\ MaxLevel(w, h) = MaxLevel(h, w)
          /\ LevelBounds(w, h, MaxLevel(w, h))
    /\ \A s \in GeoSizes :
          /\ MaxLevel(s[1], s[2]) = MaxLevel(s[2], s[1])
          /\ LevelBounds(s[1], s[2], MaxLevel(s[1], s[2]))
    /\ \A t \in DOMAIN req :
          Done(t) /\ req[t].op = "proxy_info" /\ req[t].result # None =>
              LET info == req[t].result[1]
              IN /\ LevelBounds(info.width, info.height, info.maxLevel)
                 /\ <<info.height, info.width>> \in GeoSizes
                 /\ info.maxLevel = MaxLevel(info.height, info.width)

C13_Witness ==
    \E t \in DOMAIN req :
        /\ Done(t)
        /\ req[t].op = "proxy_info"
        /\ req[t].result # None
        /\ req[t].result[1].width = 256
        /\ req[t].result[1].height = 257
        /\ req[t].result[1].maxLevel = 9
        /\ DictHas(source_image_cache, SizedUrl(257, 256))

(***************************************************************************)
(* Tiles cropped from images of several sizes: edge tiles, a level whose   *)
(* scale exceeds the image, a column left of the image, a column right of  *)
(* it, and a level above max_level.  The shared tier is unreachable.       *)
(***************************************************************************)
CropRequests ==
    {ProxyReq(SizedUrl(257, 256), 9, 0, 0, FALSE, FALSE, 90),
     ProxyReq(SizedUrl(257, 256), 9, 1, 0, FALSE, FALSE, 90),
     ProxyReq(SizedUrl(257, 256), 8, 0, 0, FALSE, FALSE, 90),
     ProxyReq(SizedUrl(257, 256), 9, 2, 0, FALSE, FALSE, 90),
     ProxyReq(SizedUrl(257, 256), 9, -1, 0, FALSE, FALSE, 90),
     ProxyReq(SizedUrl(257, 256), 18, 0, 0, FALSE, FALSE, 90),
     ProxyReq(SizedUrl(1, 1), 0, 0, 0, FALSE, FALSE, 90),
     ProxyReq(SizedUrl(1024, 700), 0, 0, 0, FALSE, FALSE, 90)}

NextCrop ==
    \/ \E t \in DOMAIN req, r \in CropRequests : StartProxyTile(t, r)
    \/ \E t \in DOMAIN req : GfiFetch(t, "ok")
    \/ \E t \in DOMAIN req, lib \in LibOutcomes : CacheInit(t, "raise", "none", {}, lib)
    \/ Restart

SpecCrop == Init /\ [][NextCrop]_vars

(* C14: the crop box of every tile produced lies inside the image and is
   not empty, and the tile is at least one pixel wide and high. *)
C14_CropInsideImage ==
    \A t \in DOMAIN req :
        req[t].op = "proxy_tile" /\ req[t].fresh # None =>
            LET box == req[t].fresh[1].img.box
                img == req[t].image[1]
            IN /\ 0 <= box[1] /\ box[1] < box[3] /\ box[3] <= img.w
               /\ 0 <= box[2] /\ box[2] < box[4] /\ box[4] <= img.h
               /\ req[t].fresh[1].img.w >= 1
               /\ req[t].fresh[1].img.h >= 1

(***************************************************************************)
(* Two requests in flight for one address.  The coroutines of one event    *)
(* loop interleave at their awaits, which are the steps of the model; the  *)
(* asset lookup may fail for one request and succeed for the other.        *)
(***************************************************************************)
PairHandlers == {"h1", "h2"}

PairRequests == {ProxyReq(ThumbUrl, 9, 0, 0, TRUE, FALSE, 90)}

(* requests for other tiles, which fill the local tier *)
PairOtherRequests ==
    {LocalReq("a", 12, 0, 0, FALSE, FALSE),
     LocalReq("a1", 2, 0, 0, FALSE, FALSE)}

PairLookupResponses ==
    {[kind |-> "error", links |-> <<>>],
     [kind |-> "ok", links |-> <<OrigTifUrl, OrigUrl, ThumbUrl>>]}

InitPair ==
    /\ connected = FALSE
    /\ memory_cache = <<>>
    /\ redis = <<>>
    /\ source_image_cache = <<>>
    /\ models_loaded = FALSE
    /\ models = [sr |-> "unset"]
    /\ req = [t \in PairHandlers |-> IdleReq]
    /\ main = MainInit

(* the steps of one request in flight *)
StepPair(t) ==
    \/ \E resp \in PairLookupResponses : GfiLookup(t, resp)
    \/ GfiFetch(t, "ok")
    \/ \E srLoad \in SrLoadOutcomes : CacheInit(t, "ok", srLoad, {}, "ok")
    \/ \E srLoad \in SrLoadOutcomes : CacheGet(t, "ok", srLoad, {}, "ok")
    \/ CacheSetex(t, "ok")

NextPair ==
    \/ \E t \in DOMAIN req, r \in PairRequests : StartProxyTile(t, r)
    \/ \E t \in DOMAIN req, r \in PairOtherRequests : StartLocalTile(t, r)
    \/ \E t \in DOMAIN req : StepPair(t)

SpecPair == InitPair /\ [][NextPair]_vars

(* a request that missed the cache and made its tile *)
Miss(t) == Done(t) /\ ~req[t].hit /\ req[t].fresh # None

InFlight(t) == req[t].pc \notin {"idle", "done"}

EntriesOf(d, k) == Cardinality({i \in 1..Len(d) : d[i].k = k})

(* a request in flight waits for an answer of its own (the asset lookup,
   the image fetch, the ping, the read or the write of the shared tier),
   never for the other request, and has made at most one lookup and one
   fetch: it is at most five answers away from its end *)
Completes(t) ==
    /\ InFlight(t) => req[t].pc \in {"lookup", "fetch", "init", "get", "setex"}
    /\ req[t].pc = "setex" => req[t].fresh # None
    /\ req[t].pc = "get" => req[t].key # ""
    /\ Len(req[t].net) <= 2
    /\ req[t].depth <= 1

(* after two misses for one key: one entry per tier, written by one of them *)
OneEntryLastWriter(a, b) ==
    /\ EntriesOf(memory_cache, req[a].key) = 1
    /\ DictGet(memory_cache, req[a].key) \in {req[a].result, req[b].result}
    /\ RedisGet(redis, req[a].key) \in {None, req[a].result, req[b].result}

(* C15 as stated: two requests for one address that both missed the cache
   both complete, return the same bytes, and leave one entry for the key. *)
C15_ConcurrentMissesIdentical ==
    /\ \A t \in DOMAIN req : Completes(t)
    /\ \A a, b \in DOMAIN req :
          a # b /\ Miss(a) /\ Miss(b) /\ req[a].key = req[b].key =>
              /\ req[a].result = req[b].result
              /\ OneEntryLastWriter(a, b)

(* C15 amended: a request in flight is never held up by the other; two
   requests for one address that both missed the cache return the same
   bytes when both resolved to the same image, and in every case leave one
   entry for the key in each tier, the tile of one of them. *)
C15_ConcurrentMissesSameSource ==
    /\ \A t \in DOMAIN req : Completes(t)
    /\ \A a, b \in DOMAIN req :
          a # b /\ Miss(a) /\ Miss(b) /\ req[a].key = req[b].key =>
              /\ req[a].image = req[b].image => req[a].result = req[b].result
              /\ OneEntryLastWriter(a, b)

C15_Witness ==
    /\ Miss("h1") /\ Miss("h2")
    /\ req["h1"].key = req["h2"].key
    /\ req["h1"].image = req["h2"].image
    /\ req["h1"].result = req["h2"].result
    /\ RedisGet(redis, req["h1"].key) = req["h2"].result

(***************************************************************************)
(* Tiles of several images are cached and invalidated.                     *)
(***************************************************************************)
InvLocalRequests ==
    {LocalReq("a", 12, 0, 0, FALSE, FALSE),
     LocalReq("a:1", 2, 0, 0, FALSE, FALSE),
     LocalReq("a[1]", 2, 0, 0, FALSE, FALSE)}

InvImageIds == {"a", "a:1", "a[1]"}

InvTiles == {<<"a", 12, 0, 0>>, <<"a:1", 2, 0, 0>>, <<"a", 1, 2, 0>>}

NextInv ==
    \/ \E t \in DOMAIN req, r \in InvLocalRequests : StartLocalTile(t, r)
    \/ \E t \in DOMAIN req, ping \in RedisOutcomes : CacheInit(t, ping, "none", {}, "ok")
    \/ \E t \in DOMAIN req, rd \in RedisOutcomes : CacheGet(t, rd, "none", {}, "ok")
    \/ \E t \in DOMAIN req, wr \in RedisOutcomes : CacheSetex(t, wr)
    \/ \E t \in DOMAIN req, i \in InvImageIds : StartInvalidateImage(t, i)
    \/ \E t \in DOMAIN req, c \in InvTiles : StartInvalidateTile(t, c[1], c[2], c[3], c[4])
    \/ \E t \in DOMAIN req, ks \in RedisOutcomes : InvalidateKeys(t, ks)
    \/ \E t \in DOMAIN req, dl \in RedisOutcomes : InvalidateDelete(t, dl)
    \/ Restart

SpecInv == Init /\ [][NextInv]_vars

InvOps == {"invalidate_image", "invalidate_tile"}

(* the prefix an invalidation is meant to clear *)
InvPrefix(tk) ==
    IF tk.op = "invalidate_image" THEN tk.image_id \o ":"
    ELSE tk.image_id \o ":" \o ToString(tk.z) \o ":" \o ToString(tk.x)
         \o ":" \o ToString(tk.y) \o ":"

(* C16: no step of an invalidation changes the local tier, and after an
   invalidation every key of the local tier under its prefix is still
   answered by get_tile, from the local tier when the shared tier no longer
   has it. *)
C16_InvalidationLeavesLocalTier ==
    /\ [][\A t \in DOMAIN req :
            req'[t].op \in InvOps /\ req'[t] # req[t] => memory_cache' = memory_cache]_vars
    /\ [](\A t \in DOMAIN req :
            Done(t) /\ req[t].op \in InvOps =>
                \A k \in DictKeys(memory_cache), rd \in RedisOutcomes :
                    StartsWith(k, InvPrefix(req[t])) =>
                        LET got == get_tile(memory_cache, redis, connected, k, rd).value
                        IN /\ got # None
                           /\ k \notin DOMAIN redis => got = DictGet(memory_cache, k))

C16_Witness ==
    \E t \in DOMAIN req :
        /\ Done(t)
        /\ req[t].op = "invalidate_image"
        /\ req[t].image_id = "a"
        /\ ~req[t].cacheErr /\ ~req[t].storeErr
        /\ \E k \in req[t].keys :
              /\ StartsWith(k, "a:12:")
              /\ k \notin DOMAIN redis
              /\ DictHas(memory_cache, k)

(* an invalidation that found the shared tier connected and whose calls
   both succeeded *)
InvalidationRan(t) ==
    Done(t) /\ req[t].op \in InvOps /\ ~req[t].cacheErr /\ ~req[t].storeErr

(* C17: after an invalidation that ran against the shared tier, with no
   other request in flight, the shared tier holds no key that begins with
   its prefix; an invalidation that met an unreachable shared tier changes
   nothing; neither raises. *)
C17_PrefixCleared ==
    /\ [](\A t \in DOMAIN req :
            /\ InvalidationRan(t) =>
                  \A k \in DOMAIN redis : ~StartsWith(k, InvPrefix(req[t]))
            /\ Done(t) /\ req[t].op \in InvOps => req[t].status = 200)
    /\ [][\A t \in DOMAIN req :
            req'[t].op \in InvOps /\ req'[t] # req[t] /\ redis' # redis =>
                ~req'[t].cacheErr /\ ~req'[t].storeErr]_vars

(***************************************************************************)
(* Precompute status.  The specification runs precompute tasks one after   *)
(* the other: with a source reference over three levels, with an empty     *)
(* list of levels, and without a reference (the simulation); the shared    *)
(* tier may fail any call.  A status query is judged in every state in     *)
(* which the task is suspended, for every way the shared tier may answer   *)
(* the query.                                                              *)
(***************************************************************************)
PreRequests ==
    {PrecomputeReq("a", Some(PlainUrl), <<9, 10, 11>>),
     PrecomputeReq("a", Some(PlainUrl), <<>>),
     PrecomputeReq("a1", None, <<9>>)}

NextPre ==
    \/ \E t \in DOMAIN req, r \in PreRequests : StartPrecompute(t, r)
    \/ \E t \in DOMAIN req, wr \in RedisOutcomes : StatusSetex(t, wr)
    \/ \E t \in DOMAIN req : SimSleep(t)
    \/ \E t \in DOMAIN req, outcome \in {"ok", "status"} : GfiFetch(t, outcome)
    \/ \E t \in DOMAIN req, ping \in RedisOutcomes, srLoad \in SrLoadOutcomes :
          CacheInit(t, ping, srLoad, {}, "ok")
    \/ \E t \in DOMAIN req, rd \in RedisOutcomes, srLoad \in SrLoadOutcomes :
          CacheGet(t, rd, srLoad, {}, "ok")
    \/ \E t \in DOMAIN req, wr \in RedisOutcomes : CacheSetex(t, wr)

SpecPre == Init /\ [][NextPre]_vars

PreIds == {r.image_id : r \in PreRequests}

(* what a status query may answer in this state *)
StatusAnswers(image_id) ==
    {get_ml_status(memory_cache, redis, connected, image_id, ping, rd) :
        ping \in RedisOutcomes, rd \in RedisOutcomes}

StatusDocuments ==
    {Available, Completed}
    \cup {Processing(p) : p \in 0..100}
    \cup {ErrorStatus(m) : m \in {"decode"}}

LastWrite(run) == run.writes[Len(run.writes)]

(* a task is in progress until it writes its terminal status *)
RunInProgress(t) == req[t].run.active /\ LastWrite(req[t].run).status = "processing"

RunFinished(t) == req[t].op = "precompute" /\ req[t].pc = "done"

(* C18: the status of an identifier is one of the four documents; it is
   available with progress 0 before any precompute task for the
   identifier, processing while a task for it is in progress, and a task
   that has returned wrote a terminal status last. *)
C18_StatusLifecycle ==
    /\ \A id \in PreIds : StatusAnswers(id) \subseteq StatusDocuments
    /\ \A id \in PreIds :
          (\A t \in DOMAIN req : id \notin req[t].run.started)
              => StatusAnswers(id) = {Available}
    /\ \A t \in DOMAIN req :
          RunInProgress(t)
              => \A s \in StatusAnswers(req[t].run.image_id) : s.status = "processing"
    /\ \A t \in DOMAIN req :
          RunFinished(t)
              => /\ req[t].run.writes # <<>>
                 /\ LastWrite(req[t].run) \in {Completed} \cup {ErrorStatus("decode")}

(***************************************************************************)
(* The pool of decoded images, tile_service.py:301-304, under SpecLevel:   *)
(* discovery requests for five references, every fetch answered.           *)
(***************************************************************************)
(* C19: the pool of decoded images holds at most 3 images. *)
C19_PoolAtMostThree == Len(source_image_cache) <= PoolLimit

(***************************************************************************)
(* The local tier under set_tile.  Under SpecPre the local tier is what a  *)
(* sequence of set_tile calls made of it: tiles are new keys, the statuses *)
(* of a task overwrite one key, the service is connected or not and the    *)
(* shared write fails or not.  In every such state one more call is made,  *)
(* with a key that is present or not.  Between the write of the local tier *)
(* and the return of the call nothing else writes it when the calls come   *)
(* one after the other.                                                    *)
(***************************************************************************)
StoreKeys ==
    {StatusKey("a"), StatusKey("a1"), "new",
     DynKey(PlainUrl, 9, 0, 0, TRUE, FALSE, "0.5", DefaultQuality),
     DynKey(PlainUrl, 11, 0, 0, TRUE, FALSE, "0.5", DefaultQuality)}

StoreValues == {Completed, Processing(FirstProgress)}

(* C20: after any sequence of set_tile calls the local tier holds at most
   its capacity of entries (200 in the code), and the entry a call wrote is
   present when the call returns, whatever the shared tier does. *)
C20_LocalTierBounded ==
    /\ Len(memory_cache) <= LocalCapacity
    /\ \A k \in StoreKeys, v \in StoreValues, conn \in BOOLEAN, wr \in RedisOutcomes :
          LET st == set_tile(memory_cache, redis, conn, k, v, wr)
          IN /\ ~st.raised
             /\ Len(st.memory) <= LocalCapacity
             /\ DictGet(st.memory, k) = Some(v)

(* a task over three levels has returned: the statuses overwrote one key,
   the local tier is full, it holds the last status, and the tile of the
   first level has been evicted *)
C20_Witness ==
    \E t \in DOMAIN req :
        /\ RunFinished(t)
        /\ Len(req[t].run.tiles) = 3
        /\ \A i \in 1..3 : req[t].run.tiles[i] # None
        /\ Len(memory_cache) = LocalCapacity
        /\ DictGet(memory_cache, StatusKey(req[t].run.image_id)) = Some(Completed)
        /\ ~DictHas(memory_cache, DynKey(PlainUrl, 9, 0, 0, TRUE, FALSE, "0.5", DefaultQuality))

(***************************************************************************)
(* The fallback of the resolver, tile_service.py:290-321, under Spec.      *)
(***************************************************************************)
(* the i-th network call of the request is a failed fetch of a resolved
   original *)
FailedResolvedFetch(t, i) ==
    /\ req[t].net[i].kind = "fetch"
    /\ req[t].net[i].url # req[t].url
    /\ req[t].net[i].res # "ok"

(* C21: after every kind of failure of the fetch of the resolved original
   the resolver goes on to the unresolved reference: it fetches it (or
   finds it in the pool) and returns its image if that fetch succeeds. *)
C21_EveryFetchFailureFallsBack ==
    \A t \in DOMAIN req :
        Done(t) /\ req[t].op = "proxy_tile" =>
            \A i \in 1..Len(req[t].net) :
                FailedResolvedFetch(t, i) =>
                    \/ \E j \in (i + 1)..Len(req[t].net) :
                          /\ req[t].net[j].kind = "fetch"
                          /\ req[t].net[j].url = req[t].url
                          /\ req[t].net[j].res = "ok"
                                => req[t].image = Some(ImageOf(req[t].url))
                    \/ req[t].poolHit /\ req[t].image = Some(ImageOf(req[t].url))

(***************************************************************************)
(* The resolver with the failures of a fetch told apart: a non-200 status, *)
(* a timeout, "error" for a connection or transport exception, and         *)
(* "undecodable" for a 200 whose body Image.open refuses (line 296).  The  *)
(* last two end in the handler of lines 319-321.                           *)
(***************************************************************************)
ResFetchOutcomes == {"ok", "status", "timeout", "error", "undecodable"}

ResRequests ==
    {ProxyReq(ThumbUrl, 10, 0, 0, FALSE, FALSE, 90),
     ProxyReq(PlainUrl, 10, 0, 0, FALSE, FALSE, 90)}

NextRes ==
    \/ \E t \in DOMAIN req, r \in ResRequests : StartProxyTile(t, r)
    \/ \E t \in DOMAIN req, resp \in LookupResponses : GfiLookup(t, resp)
    \/ \E t \in DOMAIN req, outcome \in ResFetchOutcomes : GfiFetch(t, outcome)
    \/ \E t \in DOMAIN req, ping \in RedisOutcomes : CacheInit(t, ping, "none", {}, "ok")
    \/ \E t \in DOMAIN req, rd \in RedisOutcomes : CacheGet(t, rd, "none", {}, "ok")
    \/ \E t \in DOMAIN req, wr \in RedisOutcomes : CacheSetex(t, wr)

SpecRes == Init /\ [][NextRes]_vars

LastCall(t) == req[t].net[Len(req[t].net)]

(* the last fetch of the request was of the unresolved reference and
   failed: the only fetch when nothing was resolved, the fallback fetch
   otherwise *)
FetchesFailed(t) ==
    /\ req[t].net # <<>>
    /\ LastCall(t).kind = "fetch"
    /\ LastCall(t).url = req[t].url
    /\ LastCall(t).res \in {"status", "timeout", "error"}

Undecodable(t) ==
    /\ req[t].net # <<>>
    /\ LastCall(t).kind = "fetch"
    /\ LastCall(t).res = "undecodable"

(* C22: the resolver yields no image exactly when the fetch of the
   resolved reference and the fallback fetch, where there is a resolved
   original to fall back from, both failed, or the response could not be
   decoded; then get_dynamic_tile returns no tile without reaching the
   cache, and no step of the request changed the pool or a cache tier. *)
C22_SourceUnavailable ==
    /\ [](\A t \in DOMAIN req :
            Done(t) /\ req[t].op = "proxy_tile" =>
                /\ req[t].image = None <=> (FetchesFailed(t) \/ Undecodable(t))
                /\ req[t].image = None =>
                      /\ req[t].result = None
                      /\ req[t].fresh = None
                      /\ req[t].key = ""
                      /\ ~req[t].hit)
    /\ [][\A t \in DOMAIN req :
            (/\ req'[t] # req[t]
             /\ req'[t].op = "proxy_tile"
             /\ req'[t].image = None)
            => UNCHANGED <<source_image_cache, memory_cache, redis>>]_vars

(***************************************************************************)
(* CacheService.get_tile, cache_service.py:29-42, called in every state    *)
(* the precompute tasks reach: the two tiers then hold tiles and statuses, *)
(* and for a status they may hold different documents.                     *)
(***************************************************************************)
(* C23: get_tile never raises; connected, it returns the value of the
   shared tier if the read succeeds and the key is there; not connected, or
   the read raising, it returns what the local tier has for the key. *)
C23_ReadFailsOpen ==
    \A k \in StoreKeys, conn \in BOOLEAN, rd \in RedisOutcomes :
        LET ans == get_tile(memory_cache, redis, conn, k, rd)
        IN /\ ~ans.raised
           /\ conn /\ rd = "ok" /\ k \in DOMAIN redis => ans.value = Some(redis[k])
           /\ conn /\ rd = "ok" /\ k \notin DOMAIN redis => ans.value = DictGet(memory_cache, k)
           /\ ~conn \/ rd = "raise" => ans.value = DictGet(memory_cache, k)

(* connected, the tiers hold different documents for one key and the local
   tier holds a key the shared tier lacks *)
C23_Witness ==
    /\ connected
    /\ \E k \in StoreKeys :
          /\ k \in DOMAIN redis
          /\ DictHas(memory_cache, k)
          /\ DictGet(memory_cache, k) # Some(redis[k])
          /\ get_tile(memory_cache, redis, TRUE, k, "ok").value = Some(redis[k])
          /\ get_tile(memory_cache, redis, TRUE, k, "raise").value = DictGet(memory_cache, k)
    /\ \E k \in StoreKeys : k \notin DOMAIN redis /\ DictHas(memory_cache, k)

(***************************************************************************)
(* CacheService.set_tile, cache_service.py:44-57, under SpecPre: as one    *)
(* more call in every reachable state, and in the calls of the tasks,      *)
(* which are suspended between the local write and the shared write.       *)
(***************************************************************************)
(* the value whose shared write the request awaits *)
Written(t) == IF req[t].pc = "status_setex" THEN req[t].run.pending ELSE req[t].fresh

AwaitsSharedWrite(t) == req[t].pc \in {"setex", "status_setex"}

(* C24: set_tile(K, b) leaves K mapped to b in the local tier in every
   case; the shared tier takes K to b exactly when the service is connected
   and the write does not fail, and is otherwise left as it was; the local
   write comes first: while the call awaits the shared write the local
   tier already holds b, and the shared tier changes only by such a write. *)
C24_WriteThrough ==
    /\ [](\A k \in StoreKeys, v \in StoreValues, conn \in BOOLEAN, wr \in RedisOutcomes :
            LET st == set_tile(memory_cache, redis, conn, k, v, wr)
            IN /\ ~st.raised
               /\ DictGet(st.memory, k) = Some(v)
               /\ conn /\ wr = "ok" =>
                     /\ RedisGet(st.shared, k) = Some(v)
                     /\ \A o \in DOMAIN redis \ {k} : RedisGet(st.shared, o) = Some(redis[o])
                     /\ DOMAIN st.shared = DOMAIN redis \cup {k}
               /\ ~(conn /\ wr = "ok") => st.shared = redis)
    /\ [](\A t \in DOMAIN req :
            AwaitsSharedWrite(t) =>
                connected /\ DictGet(memory_cache, req[t].key) = Written(t))
    /\ [][redis' # redis =>
            \E t \in DOMAIN req :
                /\ AwaitsSharedWrite(t)
                /\ redis' = (req[t].key :> Written(t)[1]) @@ redis]_vars

(* a task awaits the shared write of a status the local tier already
   holds, while the shared tier still has the previous one *)
C24_Witness ==
    \E t \in DOMAIN req :
        /\ req[t].pc = "status_setex"
        /\ DictGet(memory_cache, req[t].key) = req[t].run.pending
        /\ req[t].key \in DOMAIN redis
        /\ redis[req[t].key] # req[t].run.pending[1]
        /\ req[t].run.pending = Some(Completed)

(***************************************************************************)
(* The order of eviction of the local tier, cache_service.py:47-50, under  *)
(* SpecPre.  memory_cache lists the entries in the order of the dict, that *)
(* of first insertion.                                                     *)
(***************************************************************************)
KeySeq(d) == [i \in 1..Len(d) |-> d[i].k]

(* the entries of d from number n + 1 on *)
DropFirst(d, n) == SubSeq(d, n + 1, Len(d))

IsPrefix(a, b) == Len(a) <= Len(b) /\ SubSeq(b, 1, Len(a)) = a

(* C25: a write of a key that is present changes its value and no
   position; a write of a new key appends it and, when the tier was full,
   removes exactly one entry, the first in insertion order; and no step,
   whatever it reads or writes, reorders the entries it keeps: those
   removed are the oldest and those added come last. *)
C25_EvictsOldestInserted ==
    /\ [](\A k \in StoreKeys, v \in StoreValues :
            LET m == LocalPut(memory_cache, k, v)
            IN IF DictHas(memory_cache, k)
               THEN /\ KeySeq(m) = KeySeq(memory_cache)
                    /\ \A i \in 1..Len(m) :
                          m[i] = IF m[i].k = k THEN [k |-> k, v |-> v] ELSE memory_cache[i]
               ELSE IF Len(memory_cache) < LocalCapacity
               THEN m = Append(memory_cache, [k |-> k, v |-> v])
               ELSE m = Append(Tail(memory_cache), [k |-> k, v |-> v]))
    /\ [][\E n \in 0..Len(memory_cache) :
            IsPrefix(KeySeq(DropFirst(memory_cache, n)), KeySeq(memory_cache'))]_vars

(* the status of a task was written first and overwritten after the tile
   of level 9 was cached, and still precedes it; the status of an earlier
   task, the oldest entry, has been evicted *)
C25_Witness ==
    \E t \in DOMAIN req :
        /\ req[t].run.active
        /\ req[t].run.image_id = "a"
        /\ "a1" \in req[t].run.started
        /\ ~DictHas(memory_cache, StatusKey("a1"))
        /\ Len(req[t].run.writes) >= 2
        /\ \E i, j \in 1..Len(memory_cache) :
              /\ i < j
              /\ memory_cache[i] = [k |-> StatusKey("a"), v |-> LastWrite(req[t].run)]
              /\ memory_cache[j].k = DynKey(PlainUrl, 9, 0, 0, TRUE, FALSE, "0.5", DefaultQuality)

(***************************************************************************)
(* The pool of decoded images under two requests in flight: discovery      *)
(* requests for five references; the origin answers 200 or another status. *)
(* Both requests may miss the pool for one reference and fetch it, since   *)
(* the test of line 287 and the insertion of line 304 are separated by the *)
(* await of line 294.                                                      *)
(***************************************************************************)
NextPool ==
    \/ \E t \in DOMAIN req, u \in InfoUrls : StartProxyInfo(t, u)
    \/ \E t \in DOMAIN req, outcome \in {"ok", "status"} : GfiFetch(t, outcome)

SpecPool == InitPair /\ [][NextPool]_vars

(* the references the step removes from the pool *)
Evicted == DictKeys(source_image_cache) \ DictKeys(source_image_cache')

(* the references the step adds to the pool *)
Inserted == DictKeys(source_image_cache') \ DictKeys(source_image_cache)

(* C26: the pool evicts in insertion order: a step evicts at most one
   image, the one inserted earliest; it evicts only while inserting a
   reference that is not in the pool and would take the pool beyond its
   capacity; a request answered from the pool leaves the pool as it is;
   and the images kept stay in order, a new one coming last. *)
C26_PoolEvictsOldestInserted ==
    [][/\ Evicted # {} =>
             /\ Evicted = {source_image_cache[1].k}
             /\ Inserted # {}
             /\ Len(source_image_cache) + 1 > PoolLimit
       /\ \E n \in 0..1 :
             IsPrefix(KeySeq(DropFirst(source_image_cache, n)), KeySeq(source_image_cache'))
       /\ \A t \in DOMAIN req :
             req'[t] # req[t] /\ req'[t].poolHit => UNCHANGED source_image_cache]_vars

(***************************************************************************)
(* Crop geometry.  Every behaviour is one request drawn from a grid of     *)
(* addresses over images of several sizes, served with nothing cached: the *)
(* process restarts after each request.  The levels are those from 0 to    *)
(* the maximum level of the image; columns and rows run from -1 to past    *)
(* the edge.                                                               *)
(***************************************************************************)
GeoImageSizes == {<<1, 1>>, <<3, 5>>, <<257, 256>>, <<1000, 1000>>, <<10000, 6000>>}

GeoCoords == {-1, 0, 1, 2}

GeoRequests ==
    {ProxyReq(SizedUrl(s[1], s[2]), z, x, y, FALSE, FALSE, 90) :
        s \in GeoImageSizes, z \in 0..14, x \in GeoCoords, y \in GeoCoords}

NextGeo ==
    \/ \E t \in DOMAIN req, r \in GeoRequests :
          /\ req[t].pc = "idle"
          /\ r.z <= MaxLevel(ImageOf(r.url).w, ImageOf(r.url).h)
          /\ StartProxyTile(t, r)
    \/ \E t \in DOMAIN req : GfiFetch(t, "ok")
    \/ \E t \in DOMAIN req : CacheInit(t, "raise", "none", {}, "ok")
    \/ (\E t \in DOMAIN req : Done(t)) /\ Restart

SpecGeo == Init /\ [][NextGeo]_vars

(* the reference geometry, written from its definition *)
RefScale(z, maxLevel) == Pow2(maxLevel - z)

RefCropBox(x, y, tileSize, scale, width, height) ==
    LET left   == x * tileSize * scale
        top    == y * tileSize * scale
        right  == IF left + tileSize * scale < width THEN left + tileSize * scale ELSE width
        bottom == IF top + tileSize * scale < height THEN top + tileSize * scale ELSE height
    IN [absent |-> left >= width \/ top >= height \/ right <= left \/ bottom <= top,
        box    |-> <<left, top, right, bottom>>]

RefOf(t) ==
    LET img == req[t].image[1]
    IN RefCropBox(req[t].x, req[t].y, DefaultTileSize,
                  RefScale(req[t].z, MaxLevel(img.w, img.h)), img.w, img.h)

GeoTileSizes == {1, 2, 256, 512}

(* C27: for 0 <= z <= maxLevel the tile service crops the box of the
   reference geometry and has no tile exactly when the reference says the
   tile is absent; the same holds of the plan for other tile sizes; for an
   image of 10000 x 6000 maxLevel is 14 and the tile (14, 0, 0) of size 256
   has scale 1, box (0, 0, 256, 256) and is 256 x 256. *)
C27_CropMatchesReference ==
    /\ \A t \in DOMAIN req :
          Done(t) /\ req[t].op = "proxy_tile" /\ req[t].image # None =>
              /\ req[t].fresh = None <=> RefOf(t).absent
              /\ req[t].result = req[t].fresh
              /\ req[t].fresh # None => req[t].fresh[1].img.box = RefOf(t).box
    /\ (\A t \in DOMAIN req : req[t].pc = "idle") =>
          /\ \A s \in GeoImageSizes, ts \in GeoTileSizes, x \in GeoCoords, y \in GeoCoords :
                \A z \in 0..MaxLevel(s[1], s[2]) :
                    LET plan == CropPlan(z, x, y, ts, s[1], s[2])
                        ref  == RefCropBox(x, y, ts, RefScale(z, MaxLevel(s[1], s[2])),
                                           s[1], s[2])
                    IN /\ plan.oob = ref.absent
                       /\ plan.box = ref.box
          /\ MaxLevel(10000, 6000) = 14
          /\ RefScale(14, MaxLevel(10000, 6000)) = 1
          /\ LET plan == CropPlan(14, 0, 0, 256, 10000, 6000)
             IN /\ ~plan.oob
                /\ plan.box = <<0, 0, 256, 256>>
                /\ plan.target_w = 256 /\ plan.target_h = 256

(* the tile (14, 0, 0) of the image of 10000 x 6000 was made *)
C27_Witness ==
    \E t \in DOMAIN req :
        /\ Done(t)
        /\ req[t].url = SizedUrl(10000, 6000)
        /\ req[t].z = 14 /\ req[t].x = 0 /\ req[t].y = 0
        /\ req[t].fresh # None
        /\ req[t].result = req[t].fresh
        /\ req[t].fresh[1].img.box = <<0, 0, 256, 256>>
        /\ req[t].fresh[1].img.w = 256 /\ req[t].fresh[1].img.h = 256

(***************************************************************************)
(* Output size, tile_service.py:224-231, under SpecGeo.                    *)
(***************************************************************************)
(* the integers nearest to n / d for n >= 0 and d > 0: one, or two when
   n / d lies halfway, whichever way round() breaks the tie *)
Rounded(n, d) ==
    {q \in {Trunc(n, d), Trunc(n, d) + 1} :
        2 * (IF q * d >= n THEN q * d - n ELSE n - q * d) <= d}

(* C28: a tile made from a crop of extent (right - left) x (bottom - top)
   at scale s is max(1, round((right - left) / s)) wide and
   max(1, round((bottom - top) / s)) high. *)
C28_OutputSizeRounded ==
    \A t \in DOMAIN req :
        Done(t) /\ req[t].op = "proxy_tile" /\ req[t].fresh # None =>
            LET img   == req[t].image[1]
                scale == RefScale(req[t].z, MaxLevel(img.w, img.h))
                box   == RefOf(t).box
            IN /\ req[t].fresh[1].img.w \in {Max(1, q) : q \in Rounded(box[3] - box[1], scale)}
               /\ req[t].fresh[1].img.h \in {Max(1, q) : q \in Rounded(box[4] - box[2], scale)}

(***************************************************************************)
(* Addresses outside the pyramid, tile_service.py:205-220, under SpecCrop. *)
(***************************************************************************)
(* a negative level, column or row, or, at a level of the pyramid, a box
   that the reference geometry says is not inside the image *)
InvalidAddress(t) ==
    LET img == req[t].image[1]
    IN \/ req[t].z < 0
       \/ req[t].x < 0
       \/ req[t].y < 0
       \/ /\ req[t].z <= MaxLevel(img.w, img.h)
          /\ RefOf(t).absent

(* C29: a request whose address has a negative level, column or row, or
   whose crop box is not inside the image, ends with no tile: none is
   cropped and none is returned. *)
C29_InvalidAddressAbsent ==
    \A t \in DOMAIN req :
        /\ Done(t) /\ req[t].op = "proxy_tile"
        /\ req[t].image # None
        /\ InvalidAddress(t)
        => req[t].fresh = None /\ req[t].result = None

(***************************************************************************)
(* The pool and the local tier under two requests in flight: discovery     *)
(* requests for four references, which insert into the pool, and tile      *)
(* requests for three tiles of processed images, which insert into the     *)
(* local tier.  The shared tier is connected and every call to it fails,   *)
(* so a tile request suspends before its read and inside set_tile after    *)
(* the local write.  The requests interleave at these awaits and at the    *)
(* await of the fetch: a request that missed the pool may find, when its   *)
(* fetch is answered, that the other request has put its image there, and  *)
(* the pool full.                                                          *)
(***************************************************************************)
ContainerUrls == {SizedUrl(1, 1), SizedUrl(1, 2), SizedUrl(2, 1), SizedUrl(256, 257)}

ContainerRequests ==
    {LocalReq(MarsId, 0, 0, 0, FALSE, FALSE),
     LocalReq("a", 12, 0, 0, FALSE, FALSE),
     LocalReq("a1", 2, 0, 0, FALSE, FALSE)}

NextContainers ==
    \/ \E t \in DOMAIN req, u \in ContainerUrls : StartProxyInfo(t, u)
    \/ \E t \in DOMAIN req, r \in ContainerRequests : StartLocalTile(t, r)
    \/ \E t \in DOMAIN req : GfiFetch(t, "ok")
    \/ \E t \in DOMAIN req : CacheInit(t, "ok", "none", {}, "ok")
    \/ \E t \in DOMAIN req : CacheGet(t, "raise", "none", {}, "ok")
    \/ \E t \in DOMAIN req : CacheSetex(t, "raise")

SpecContainers == InitPair /\ [][NextContainers]_vars

(* no key occurs twice *)
KeysDistinct(d) == \A i, j \in 1..Len(d) : d[i].k = d[j].k => i = j

(* d after the removal of its first entry when over is true *)
EvictIf(d, over) == DropFirst(d, IF over THEN 1 ELSE 0)

(* the request's fetch is answered 200 in this step *)
FetchAnswered(t) ==
    /\ req[t].pc = "fetch" /\ req'[t] # req[t]
    /\ req'[t].net[Len(req'[t].net)].res = "ok"

(* the request has made its tile in this step and goes on to store it *)
TileMade(t) ==
    /\ req[t].pc \in {"init", "get"}
    /\ req'[t] # req[t] /\ req'[t].fresh # None

(* C30: under every interleaving of two requests at their awaits, the pool
   never holds more images than its size check admits and the local tier
   never more entries than its capacity, no key occurs twice, and every
   image of the pool is the image of its reference; the step in which a
   fetch is answered does the whole insertion on the pool as it is at that
   moment, whatever the other request did to it meanwhile: the oldest
   image leaves if the pool is over its limit, then the image is assigned;
   the step in which a request makes its tile does the whole insertion on
   the local tier as it is: the tile is assigned to the request's key,
   then the oldest entry leaves if the tier is over its capacity; and
   nothing else changes the pool or the tier. *)
C30_InsertionsAtomic ==
    /\ [](/\ Len(source_image_cache) <= PoolLimit + 1
          /\ Len(memory_cache) <= LocalCapacity
          /\ KeysDistinct(source_image_cache)
          /\ KeysDistinct(memory_cache)
          /\ \A i \in 1..Len(source_image_cache) :
                source_image_cache[i].v = ImageOf(source_image_cache[i].k))
    /\ [][/\ \A t \in DOMAIN req :
                FetchAnswered(t) =>
                    source_image_cache' =
                        DictSet(EvictIf(source_image_cache,
                                        Len(source_image_cache) > PoolLimit),
                                req[t].actual, ImageOf(req[t].actual))
          /\ \A t \in DOMAIN req :
                TileMade(t) =>
                    LET d == DictSet(memory_cache, req[t].key, req'[t].fresh[1])
                    IN memory_cache' = EvictIf(d, Len(d) > LocalCapacity)
          /\ source_image_cache' # source_image_cache =>
                \E t \in DOMAIN req : FetchAnswered(t)
          /\ memory_cache' # memory_cache =>
                \E t \in DOMAIN req : TileMade(t)
          /\ \A t, u \in DOMAIN req :
                req'[t] # req[t] /\ req'[u] # req[u] => t = u]_vars

(* a request awaits the shared write of a tile that the local tier held
   when it arrived and that had been evicted when it read the cache: while
   it was suspended the other request stored a tile and then fetched an
   image, which made the pool as large as it gets; the tier is full *)
C30_Witness ==
    \E t, u \in DOMAIN req :
        /\ t # u
        /\ Done(t) /\ req[t].op = "proxy_info" /\ ~req[t].poolHit
        /\ Len(source_image_cache) = PoolLimit + 1
        /\ req[u].pc = "setex" /\ req[u].op = "local_tile"
        /\ req[u].local0 # None /\ ~req[u].hit
        /\ Len(memory_cache) = LocalCapacity

(***************************************************************************)
(* Precompute runs with a source reference, ml_inference.py:292-325: the   *)
(* levels are given out of order, twice the same, or not at all; the       *)
(* origin answers the fetch or not, the shared tier is reachable or not    *)
(* and its calls succeed or fail.                                          *)
(***************************************************************************)
RunRequests ==
    {PrecomputeReq("a", Some(PlainUrl), <<11, 9, 10>>),
     PrecomputeReq("a", Some(PlainUrl), <<10, 10>>),
     PrecomputeReq("a1", Some(PlainUrl), <<>>)}

NextRun ==
    \/ \E t \in DOMAIN req, r \in RunRequests : StartPrecompute(t, r)
    \/ \E t \in DOMAIN req, wr \in RedisOutcomes : StatusSetex(t, wr)
    \/ \E t \in DOMAIN req, outcome \in {"ok", "status"} : GfiFetch(t, outcome)
    \/ \E t \in DOMAIN req, ping \in RedisOutcomes : CacheInit(t, ping, "none", {}, "ok")
    \/ \E t \in DOMAIN req, rd \in RedisOutcomes : CacheGet(t, rd, "none", {}, "ok")
    \/ \E t \in DOMAIN req, wr \in RedisOutcomes : CacheSetex(t, wr)

SpecRun == Init /\ [][NextRun]_vars

(* the task is inside the get_dynamic_tile of a level *)
InLevelCall(t) == req[t].run.active /\ req[t].op = "proxy_tile"

(* C31: a precompute run with a source reference calls the tile pipeline
   for the root tile of each requested level with enhance = true, in the
   order given: the call for a level is made when the tiles of the levels
   before it have returned and one status per such level has been written
   after the first; a run that has returned made one call per level and
   wrote one status after each; the progress values written are
   non-decreasing and within 0..100, and 100 is written only with status
   completed. *)
C31_LevelsInOrderProgressMonotone ==
    \A t \in DOMAIN req :
        LET run == req[t].run
        IN run.url # None /\ run.writes # <<>> =>
            /\ run.i \in 0..Len(run.levels)
            /\ InLevelCall(t) =>
                  /\ run.i >= 1
                  /\ req[t].z = run.levels[run.i]
                  /\ req[t].x = 0 /\ req[t].y = 0
                  /\ req[t].enhance
                  /\ req[t].url = run.url[1]
                  /\ Len(run.tiles) = run.i - 1
                  /\ Len(run.writes) = run.i
            /\ RunFinished(t) =>
                  /\ run.i = Len(run.levels)
                  /\ Len(run.tiles) = Len(run.levels)
                  /\ Len(run.writes) = Len(run.levels) + 2
            /\ \A j \in 1..Len(run.writes) :
                  /\ run.writes[j].progress \in 0..100
                  /\ run.writes[j].progress = 100 => run.writes[j].status = "completed"
                  /\ j > 1 => run.writes[j - 1].progress <= run.writes[j].progress
                  /\ j \in 2..Len(run.tiles) + 1 => run.writes[j].status = "processing"

(* a run over the levels 11, 9, 10 has returned: three tiles, five statuses *)
C31_Witness ==
    \E t \in DOMAIN req :
        /\ RunFinished(t)
        /\ req[t].run.levels = <<11, 9, 10>>
        /\ \A j \in 1..3 : req[t].run.tiles[j] # None
        /\ [j \in 1..5 |-> req[t].run.writes[j].progress] = <<5, 38, 66, 95, 100>>

(***************************************************************************)
(* Failures inside the pipeline, tile_service.py:177-256 and 53-119, under *)
(* Spec: the lookup, the fetch, the shared tier and the imaging library    *)
(* fail in every combination.                                              *)
(***************************************************************************)
TileRequest(t) == req[t].op \in {"proxy_tile", "local_tile"}

(* C32: a tile request always ends with a value returned by the service,
   never with an exception: the value is no tile, the cached tile or the
   tile just made, and the route answers from that value. *)
C32_NoFatalErrorPath ==
    \A t \in DOMAIN req :
        Done(t) /\ TileRequest(t) =>
            /\ req[t].status = RouteStatus(req[t].op, req[t].result)
            /\ \/ req[t].result = None
               \/ req[t].hit /\ req[t].result # None
               \/ ~req[t].hit /\ req[t].result = req[t].fresh

(* the shared tier failed the read and the imaging library refused the
   tile of a file on disk: the local route answers 404 *)
C32_Witness ==
    \E t \in DOMAIN req :
        /\ Done(t) /\ req[t].op = "local_tile"
        /\ req[t].cacheErr /\ req[t].procErr
        /\ req[t].result = None /\ req[t].status = 404

(***************************************************************************)
(* The discovery document and the tiles of one reference: a viewer asks    *)
(* for the document and for tiles, here from two handlers; the reference   *)
(* is a thumbnail, whose original the asset lookup finds or not each time  *)
(* it is asked, or a plain reference.  Every fetch is answered.            *)
(***************************************************************************)
DocUrls == {ThumbUrl, PlainUrl}

DocRequests == {ProxyReq(u, 9, 0, 0, FALSE, FALSE, 90) : u \in DocUrls}

NextDoc ==
    \/ \E t \in DOMAIN req, u \in DocUrls : StartProxyInfo(t, u)
    \/ \E t \in DOMAIN req, r \in DocRequests : StartProxyTile(t, r)
    \/ \E t \in DOMAIN req, resp \in PairLookupResponses : GfiLookup(t, resp)
    \/ \E t \in DOMAIN req : GfiFetch(t, "ok")
    \/ \E t \in DOMAIN req : CacheInit(t, "raise", "none", {}, "ok")

SpecDoc == InitPair /\ [][NextDoc]_vars

(* the request has served a discovery document *)
Served(t) == Done(t) /\ req[t].op = "proxy_info" /\ req[t].result # None

(* the request has returned from get_dynamic_tile, which had an image *)
Cropped(t) == Done(t) /\ req[t].op = "proxy_tile" /\ req[t].image # None

(* the document has the size of the image the request resolved, the level
   of that size, tile width 256 and the scale factors 1, 2, ..., 2^maxLevel *)
DocumentOfImage(t) ==
    LET info == req[t].result[1]
        img  == req[t].image[1]
    IN /\ info.width = img.w /\ info.height = img.h
       /\ LevelBounds(img.w, img.h, info.maxLevel)
       /\ info.tile_width = 256
       /\ Len(info.scaleFactors) = info.maxLevel + 1
       /\ info.scaleFactors[1] = 1
       /\ \A i \in 2..Len(info.scaleFactors) :
             info.scaleFactors[i] = 2 * info.scaleFactors[i - 1]

(* the document of a and the image b cropped from agree *)
DocumentFits(a, b) ==
    LET info == req[a].result[1]
        img  == req[b].image[1]
    IN /\ info.width = img.w /\ info.height = img.h
       /\ info.maxLevel = MaxLevel(img.w, img.h)

(* C33: the document of a reference has the size and the level of the
   image that a tile request for the same reference crops from, tile width
   256 and the scale factors 2^0 .. 2^maxLevel. *)
C33_DocumentMatchesTiles ==
    /\ \A a \in DOMAIN req : Served(a) => DocumentOfImage(a)
    /\ \A a, b \in DOMAIN req :
          Served(a) /\ Cropped(b) /\ req[a].url = req[b].url => DocumentFits(a, b)

(* What holds of the document: it has the size and the level of the image
   its own resolver call yielded, tile width 256 and the scale factors
   2^0 .. 2^maxLevel; a tile request for the same reference crops from an
   image of that size, at that level, when its resolver call fetched the
   same reference, which it always does for a reference that is not a
   thumbnail. *)
DocumentMatchesResolved ==
    /\ \A a \in DOMAIN req : Served(a) => DocumentOfImage(a)
    /\ \A a, b \in DOMAIN req :
          Served(a) /\ Cropped(b) /\ req[a].url = req[b].url =>
              /\ req[a].actual = req[b].actual => DocumentFits(a, b)
              /\ req[a].url = PlainUrl => req[a].actual = req[b].actual

(***************************************************************************)
(* The resolver and the pool, tile_service.py:258-288, under SpecDoc.      *)
(***************************************************************************)
(* the request enters the resolver in this step, with the image of its
   reference in the pool *)
EntersWithPooledImage(t) ==
    /\ req[t].pc \in {"idle", "done"}
    /\ req'[t] # req[t]
    /\ req'[t].op \in {"proxy_info", "proxy_tile"}
    /\ DictHas(source_image_cache, req'[t].url)

(* C34: a resolver call for a reference whose image is in the pool returns
   that image at once: it makes no lookup and no fetch, also for a
   thumbnail reference, and leaves the pool as it is. *)
C34_PooledImageNoNetwork ==
    [][\A t \in DOMAIN req :
          EntersWithPooledImage(t) =>
              /\ req'[t].pc \notin {"lookup", "fetch"}
              /\ req'[t].poolHit
              /\ req'[t].net = <<>>
              /\ req'[t].image = DictGet(source_image_cache, req'[t].url)
              /\ UNCHANGED source_image_cache]_vars

(***************************************************************************)
(* What the cache holds.  The tile routes and the precompute task write    *)
(* the same two tiers through set_tile: tiles under the key of their       *)
(* address, statuses under "status:<image_id>".  Requests for tiles that   *)
(* exist, that are missing and whose source is unavailable, and a          *)
(* precompute run whose identifier is the tail of a tile key.              *)
(***************************************************************************)
TailId == "0:0:0:eFalse:lFalse:c0.5"

StoreLocalRequests ==
    {LocalReq(MarsId, 0, 0, 0, FALSE, FALSE),
     LocalReq("a", 12, 1, 0, FALSE, FALSE),
     LocalReq("status", 0, 0, 0, FALSE, FALSE)}

StoreProxyRequests == {ProxyReq(PlainUrl, 10, 0, 0, FALSE, FALSE, 90)}

StoreRuns == {PrecomputeReq(TailId, Some(PlainUrl), <<>>)}

NextStore ==
    \/ \E t \in DOMAIN req, r \in StoreLocalRequests : StartLocalTile(t, r)
    \/ \E t \in DOMAIN req, r \in StoreProxyRequests : StartProxyTile(t, r)
    \/ \E t \in DOMAIN req, r \in StoreRuns : StartPrecompute(t, r)
    \/ \E t \in DOMAIN req, outcome \in {"ok", "status"} : GfiFetch(t, outcome)
    \/ \E t \in DOMAIN req, ping \in RedisOutcomes, lib \in LibOutcomes :
          CacheInit(t, ping, "none", {}, lib)
    \/ \E t \in DOMAIN req, rd \in RedisOutcomes, lib \in LibOutcomes :
          CacheGet(t, rd, "none", {}, lib)
    \/ \E t \in DOMAIN req, wr \in RedisOutcomes : CacheSetex(t, wr)
    \/ \E t \in DOMAIN req, wr \in RedisOutcomes : StatusSetex(t, wr)

SpecStore == Init /\ [][NextStore]_vars

(* bytes that the encoder of a tile route produced *)
IsEncodedTile(v) == "format" \in DOMAIN v /\ "img" \in DOMAIN v

(* C35: a tile request that ends without a tile has left both tiers as
   they were for its key, and a request answered from the cache returns an
   encoded tile. *)
C35_OnlyTilesStored ==
    \A t \in DOMAIN req :
        Done(t) /\ TileRequest(t) =>
            /\ req[t].result = None /\ req[t].key # "" =>
                  /\ DictGet(memory_cache, req[t].key) = req[t].local0
                  /\ RedisGet(redis, req[t].key) = req[t].shared0
            /\ req[t].hit => IsEncodedTile(req[t].result[1])

(***************************************************************************)
(* The end of a precompute run, ml_inference.py:314-325, under SpecRun.    *)
(***************************************************************************)
(* C36: a run with a source reference that wrote completed got a tile from
   the pipeline for every requested level. *)
C36_CompletedMeansTilesMade ==
    \A t \in DOMAIN req :
        /\ RunFinished(t)
        /\ req[t].run.url # None
        /\ LastWrite(req[t].run) = Completed
        => /\ Len(req[t].run.tiles) = Len(req[t].run.levels)
           /\ \A j \in 1..Len(req[t].run.tiles) : req[t].run.tiles[j] # None

(***************************************************************************)
(* The status after a run, ml_inference.py:151-169, under SpecRun: the     *)
(* task has returned and no other has started since.                       *)
(***************************************************************************)
(* C37: after a precompute run has written its terminal status, a status
   query for the identifier answers that status, whatever the shared tier
   did with the writes of the run and whether or not it is reachable
   now. *)
C37_TerminalStatusSticks ==
    \A t \in DOMAIN req :
        RunFinished(t) =>
            StatusAnswers(req[t].run.image_id) = {LastWrite(req[t].run)}

(***************************************************************************)
(* What an invalidation removes, cache_service.py:107-121, under SpecInv.  *)
(***************************************************************************)
(* the keys of the tiles of an image *)
KeysOfImage(image_id) ==
    {LocalKey(r.image_id, r.z, r.x, r.y, r.enhance, r.labels, r.conf) :
        r \in {q \in InvLocalRequests : q.image_id = image_id}}

(* C38: invalidate_image(A) removes from the shared tier only entries of
   the image A. *)
C38_InvalidationKeepsOthers ==
    [][\A t \in DOMAIN req :
          req[t].op = "invalidate_image" /\ req'[t] # req[t] =>
              \A k \in (DOMAIN redis) \ (DOMAIN redis') :
                  k \in KeysOfImage(req[t].image_id)]_vars

(***************************************************************************)
(* The application module, main.py.  It constructs a CacheService of its   *)
(* own (line 51); startup_event initializes that instance (lines 69-70)    *)
(* and /health asks it (line 98).  The routes import the tile_service of   *)
(* services/tile_service.py, whose cache_service is the instance at the    *)
(* end of services/cache_service.py (tile_service.py:10 and 17): that one  *)
(* is the state `connected`, initialized by the first tile request.        *)
(***************************************************************************)
(* main.py:60-75: initialize catches a failing ping and leaves the
   instance disconnected *)
StartupEvent(ping) ==
    /\ ~main.started
    /\ main' = [started |-> TRUE, connected |-> initialize(ping)]
    /\ UNCHANGED <<connected, memory_cache, redis, source_image_cache, models_loaded,
                   models, req>>

(* cache_service.py:143-154 *)
health_check(conn, ping) ==
    IF ~conn THEN "disconnected"
    ELSE IF ping = "ok" THEN "healthy" ELSE "unhealthy"

(* main.py:92-100: the cache_service entries GET /health can answer now *)
HealthAnswers == {health_check(main.connected, ping) : ping \in RedisOutcomes}

HealthRequests ==
    {LocalReq(MarsId, 0, 0, 0, FALSE, FALSE),
     LocalReq("a", 12, 0, 0, FALSE, FALSE),
     LocalReq("a", 12, 1, 0, FALSE, FALSE)}

(* requests are served once startup has completed *)
NextHealth ==
    \/ \E ping \in RedisOutcomes : StartupEvent(ping)
    \/ main.started /\ \E t \in DOMAIN req, r \in HealthRequests : StartLocalTile(t, r)
    \/ \E t \in DOMAIN req, ping \in RedisOutcomes : CacheInit(t, ping, "none", {}, "ok")
    \/ \E t \in DOMAIN req, rd \in RedisOutcomes : CacheGet(t, rd, "none", {}, "ok")
    \/ \E t \in DOMAIN req, wr \in RedisOutcomes : CacheSetex(t, wr)

SpecHealth == Init /\ [][NextHealth]_vars

(* C39: once a tile has been served, /health reports the cache
   disconnected exactly when the cache service that served the tile is not
   connected. *)
C39_HealthReportsPipelineCache ==
    (\E t \in DOMAIN req : Done(t) /\ req[t].op = "local_tile") =>
        \A report \in HealthAnswers : (report = "disconnected") <=> ~connected

====
